---- MODULE Spec2Model ----
(***************************************************************************)
(* FontSnip: the font database loader, the feature aggregation and the     *)
(* cosine-similarity ranking of src/matching/font_matcher.py, and the      *)
(* glyph feature extractor of src/matching/feature_extractor.py.           *)
(*                                                                         *)
(* Numbers.  The code computes in IEEE floats; the model computes in exact *)
(* rationals.  A float is a reduced fraction [num, den] with den > 0 and a *)
(* vector is a sequence of them.  A similarity x in [-1, 1] is the         *)
(* fraction sign(x) * x^2, a strictly increasing function of x, so that    *)
(* order and equality of similarities are order and equality of the        *)
(* fractions.  Rounding, NaN and infinities are outside the model.         *)
(*                                                                         *)
(* Python values.  A dict is the sequence of its items in iteration        *)
(* (insertion) order.  An Optional is a sequence of length 0 (None) or 1.  *)
(***************************************************************************)
EXTENDS Integers, Sequences, FiniteSets, TLC

VARIABLES
    db_file,        \* what is stored at db_path
    font_matcher,   \* Optional FontMatcher object: <<>> or <<[font_database |-> ...]>>
    load,           \* how FontMatcher(db_path) ended and whether the file was opened
    call,           \* the latest call of a FontMatcher method and all it produced
    remembered,     \* Optional: an earlier find_best_matches call, kept for comparison
    char_image,     \* the glyph bitmap handed to extract_features
    extraction,     \* what extract_features did with char_image
    app,            \* the FontSnipApp object and the Qt objects it drives
    threads,        \* the frame of each thread that is inside find_best_matches
    cosine,         \* the latest direct call of _cosine_similarity and the one before
    pipeline        \* the latest call of process_image or process_capture and what it did

vars == <<db_file, font_matcher, load, call, remembered, char_image, extraction, app,
          threads, cosine, pipeline>>

-----------------------------------------------------------------------------
(* Bounds of the model *)

MaxFonts == 2       \* entries in the pickled mapping
MaxChars == 2       \* feature vectors in one character_features list
MaxTopN == 2        \* largest top_n tried besides the default
MaxDim == 2         \* largest glyph bitmap height and width
MaxMeasure == 2     \* largest area cv2.contourArea reports for one contour
MaxSide == 4        \* largest side of a carved rectangle
MaxTriggers == 2    \* emissions of trigger_capture_signal waiting for the GUI thread
MaxThreads == 2     \* threads that call find_best_matches at the same time
MaxWidgets == 2     \* capture widgets created in one run of the application
MaxComponent == 2   \* largest component of a vector handed to _cosine_similarity
MaxDetections == 2  \* tuples reader.readtext returns for one image

(* Program constants *)

FEATURE_VECTOR_SIZE == 7
DEFAULT_TOP_N == 5
DEMO_VECTOR_SIZE == 4
UPSCALE_FACTOR == 3
OCR_CONFIDENCE_THRESHOLD == 60    \* 0.60 in hundredths

-----------------------------------------------------------------------------
(* Arithmetic helpers *)

Abs(x) == IF x < 0 THEN -x ELSE x

Sign(x) == IF x < 0 THEN -1 ELSE IF x = 0 THEN 0 ELSE 1

Min(a, b) == IF a <= b THEN a ELSE b

Max(a, b) == IF a >= b THEN a ELSE b

RECURSIVE GCD(_, _)
GCD(a, b) == IF b = 0 THEN a ELSE GCD(b, a % b)

\* The reduced fraction n / d, d > 0.
Fraction(n, d) ==
    IF d = 1 THEN [num |-> n, den |-> 1]
    ELSE LET g == GCD(Abs(n), d)
         IN  [num |-> n \div g, den |-> d \div g]

Float(n) == [num |-> n, den |-> 1]

RECURSIVE FracLess(_, _)
\* x < y on fractions: by their integer parts, and for equal integer parts by
\* the reciprocals of what is left, so that no product is formed.
FracLess(x, y) ==
    LET qx == x.num \div x.den
        qy == y.num \div y.den
        rx == x.num - qx * x.den
        ry == y.num - qy * y.den
    IN  IF qx # qy THEN qx < qy
        ELSE IF ry = 0 THEN FALSE
        ELSE IF rx = 0 THEN TRUE
        ELSE FracLess([num |-> y.den, den |-> ry], [num |-> x.den, den |-> rx])

FracAdd(x, y) ==
    IF x.num = 0 THEN y
    ELSE IF y.num = 0 THEN x
    ELSE LET g == GCD(x.den, y.den)
         IN  Fraction(x.num * (y.den \div g) + y.num * (x.den \div g),
                      (x.den \div g) * y.den)

FracMul(x, y) ==
    IF x.num = 0 \/ y.num = 0 THEN [num |-> 0, den |-> 1]
    ELSE LET g == GCD(Abs(x.num), y.den)
             h == GCD(Abs(y.num), x.den)
         IN  Fraction((x.num \div g) * (y.num \div h), (x.den \div h) * (y.den \div g))

\* x / y for y > 0, with the common factors taken out before multiplying.
FracDiv(x, y) ==
    IF x.num = 0 THEN [num |-> 0, den |-> 1]
    ELSE LET g == GCD(Abs(x.num), y.num)
             h == GCD(x.den, y.den)
         IN  Fraction((x.num \div g) * (y.den \div h), (x.den \div h) * (y.num \div g))

\* np.dot of two 1-D arrays of one length.
RECURSIVE Dot(_, _)
Dot(a, b) ==
    IF a = <<>> THEN Float(0)
    ELSE FracAdd(FracMul(Head(a), Head(b)), Dot(Tail(a), Tail(b)))

\* np.linalg.norm(a) squared.
NormSq(a) == Dot(a, a)

\* np.array(components, dtype=np.float32) of a sequence of integers.
Vec(components) == [i \in 1..Len(components) |-> Float(components[i])]

\* The same of a sequence of decimal numbers, given as multiples of 1 / unit.
Decimals(components, unit) ==
    [i \in 1..Len(components) |-> Fraction(components[i], unit)]

\* np.zeros(n, dtype=np.float32)
Zeros(n) == [i \in 1..n |-> Float(0)]

-----------------------------------------------------------------------------
(* FontMatcher._load_database *)

\* pickle.load on the file's bytes: the exception it raises, or "" when it
\* returns an object.
PickleLoad(file) ==
    CASE file.kind = "truncated" -> "EOFError"
      [] file.kind = "garbage"   -> "UnpicklingError"
      [] OTHER                   -> ""

\* The exceptions the except clause of _load_database catches and wraps.
CaughtOnLoad == {"UnpicklingError", "EOFError", "ImportError", "IndexError"}

\* The dict comprehension {name: np.array(features, dtype=np.float32) ...}:
\* one entry per item, in the mapping's own order, each vector as it is.
\* An item that states a unit holds its features as multiples of 1 / unit.
ToFontDatabase(items) ==
    [i \in 1..Len(items) |->
        [name |-> items[i].name,
         vector |-> IF "unit" \in DOMAIN items[i]
                    THEN Decimals(items[i].features, items[i].unit)
                    ELSE Vec(items[i].features)]]

\* The same with a length check that the code does not have.
_load_database_validating(file) ==
    IF file.kind = "absent"
    THEN [outcome |-> "FileNotFoundError", opened |-> FALSE, font_database |-> <<>>]
    ELSE IF PickleLoad(file) \in CaughtOnLoad
    THEN [outcome |-> "Exception", opened |-> TRUE, font_database |-> <<>>]
    ELSE IF file.kind = "not_mapping"
    THEN [outcome |-> "AttributeError", opened |-> TRUE, font_database |-> <<>>]
    ELSE IF file.kind = "text_mapping"
    THEN [outcome |-> "ValueError", opened |-> TRUE, font_database |-> <<>>]
    ELSE IF \E i \in 1..Len(file.items) : Len(file.items[i].features) # FEATURE_VECTOR_SIZE
    THEN [outcome |-> "Exception", opened |-> TRUE, font_database |-> <<>>]
    ELSE [outcome |-> "ok", opened |-> TRUE,
          font_database |-> <<ToFontDatabase(file.items)>>]

\* The same with a missing file taken for an empty database.
_load_database_missing_as_empty(file) ==
    IF file.kind = "absent"
    THEN [outcome |-> "ok", opened |-> FALSE, font_database |-> << <<>> >>]
    ELSE IF PickleLoad(file) \in CaughtOnLoad
    THEN [outcome |-> "Exception", opened |-> TRUE, font_database |-> <<>>]
    ELSE IF file.kind = "not_mapping"
    THEN [outcome |-> "AttributeError", opened |-> TRUE, font_database |-> <<>>]
    ELSE IF file.kind = "text_mapping"
    THEN [outcome |-> "ValueError", opened |-> TRUE, font_database |-> <<>>]
    ELSE [outcome |-> "ok", opened |-> TRUE,
          font_database |-> <<ToFontDatabase(file.items)>>]

\* outcome: "ok" or the exception that leaves _load_database; opened: whether
\* open(db_path) was reached; font_database: Optional, the returned dict.
_load_database(file) ==
    IF file.kind = "absent"
    THEN [outcome |-> "FileNotFoundError", opened |-> FALSE, font_database |-> <<>>]
    ELSE IF PickleLoad(file) \in CaughtOnLoad
    THEN [outcome |-> "Exception", opened |-> TRUE, font_database |-> <<>>]
    ELSE IF file.kind = "not_mapping"
    THEN \* data.items() on an object that is no dict
         [outcome |-> "AttributeError", opened |-> TRUE, font_database |-> <<>>]
    ELSE IF file.kind = "text_mapping"
    THEN \* np.array("...", dtype=np.float32)
         [outcome |-> "ValueError", opened |-> TRUE, font_database |-> <<>>]
    ELSE [outcome |-> "ok", opened |-> TRUE,
          font_database |-> <<ToFontDatabase(file.items)>>]

-----------------------------------------------------------------------------
(* FontMatcher._calculate_target_vector *)

RECURSIVE SelectLen(_, _)
\* [vec for vec in vectors if len(vec) == n]
SelectLen(vectors, n) ==
    IF vectors = <<>> THEN <<>>
    ELSE IF Len(Head(vectors)) = n
         THEN <<Head(vectors)>> \o SelectLen(Tail(vectors), n)
         ELSE SelectLen(Tail(vectors), n)

\* A filter on the extractor's vector size instead of the first vector's.
RetainedCanonical(character_features) ==
    SelectLen(character_features, FEATURE_VECTOR_SIZE)

\* The list np.mean is applied to: the input filtered on the length of its
\* first vector (the input itself when all lengths agree).
Retained(character_features) ==
    IF character_features = <<>> THEN <<>>
    ELSE SelectLen(character_features, Len(character_features[1]))

\* Sum of component i over vectors of one length.
RECURSIVE SumAt(_, _)
SumAt(vectors, i) ==
    IF vectors = <<>> THEN Float(0) ELSE FracAdd(Head(vectors)[i], SumAt(Tail(vectors), i))

\* np.mean(np.array(vectors), axis=0) of a non-empty list.
Mean(vectors) ==
    [i \in 1..Len(vectors[1]) |-> FracDiv(SumAt(vectors, i), Float(Len(vectors)))]

\* A mean that forgets the filtering and averages the vectors it can.
_calculate_target_vector_first_only(character_features) ==
    IF character_features = <<>> THEN <<>>
    ELSE <<Mean(<<character_features[1]>>)>>

\* Optional vector: <<>> is None.
_calculate_target_vector(character_features) ==
    IF character_features = <<>> THEN <<>>
    ELSE IF Retained(character_features) = <<>> THEN <<>>
    ELSE <<Mean(Retained(character_features))>>

-----------------------------------------------------------------------------
(* FontMatcher._cosine_similarity *)

\* The floats 0.0 and 1.0 as similarities.
ZeroSimilarity == Float(0)

OneSimilarity == Float(1)

\* A similarity divided by the first norm twice.
_cosine_similarity_first_norm(vec1, vec2) ==
    IF Len(vec1) # Len(vec2)
    THEN [raised |-> "ValueError", value |-> ZeroSimilarity]
    ELSE IF NormSq(vec1).num = 0 \/ NormSq(vec2).num = 0
    THEN [raised |-> "", value |-> ZeroSimilarity]
    ELSE LET d == Dot(vec1, vec2)
             signed_square == [num |-> Sign(d.num) * d.num * d.num, den |-> d.den * d.den]
         IN  [raised |-> "",
              value  |-> FracDiv(signed_square, FracMul(NormSq(vec1), NormSq(vec1)))]

\* A similarity that is the dot product, not divided by the norms.
_cosine_similarity_dot_only(vec1, vec2) ==
    IF Len(vec1) # Len(vec2)
    THEN [raised |-> "ValueError", value |-> ZeroSimilarity]
    ELSE IF NormSq(vec1).num = 0 \/ NormSq(vec2).num = 0
    THEN [raised |-> "", value |-> ZeroSimilarity]
    ELSE LET d == Dot(vec1, vec2)
         IN  [raised |-> "",
              value  |-> [num |-> Sign(d.num) * d.num * d.num, den |-> d.den * d.den]]

\* A similarity without the test of the norms: the float division by zero
\* gives nan, written 0 / 0.
_cosine_similarity_unguarded(vec1, vec2) ==
    IF Len(vec1) # Len(vec2)
    THEN [raised |-> "ValueError", value |-> ZeroSimilarity]
    ELSE IF NormSq(vec1).num = 0 \/ NormSq(vec2).num = 0
    THEN [raised |-> "", value |-> [num |-> 0, den |-> 0]]
    ELSE LET d == Dot(vec1, vec2)
             signed_square == [num |-> Sign(d.num) * d.num * d.num, den |-> d.den * d.den]
         IN  [raised |-> "",
              value  |-> FracDiv(signed_square, FracMul(NormSq(vec1), NormSq(vec2)))]

\* raised: "" or the exception np.dot raises on vectors of different
\* lengths; value: the returned float dot / (norm1 * norm2), stored as
\* sign(dot) * dot^2 / (norm1^2 * norm2^2).
_cosine_similarity(vec1, vec2) ==
    IF Len(vec1) # Len(vec2)
    THEN [raised |-> "ValueError", value |-> ZeroSimilarity]
    ELSE IF NormSq(vec1).num = 0 \/ NormSq(vec2).num = 0
    THEN [raised |-> "", value |-> ZeroSimilarity]
    ELSE LET d == Dot(vec1, vec2)
             signed_square == [num |-> Sign(d.num) * d.num * d.num, den |-> d.den * d.den]
         IN  [raised |-> "",
              value  |-> FracDiv(signed_square, FracMul(NormSq(vec1), NormSq(vec2)))]

-----------------------------------------------------------------------------
(* FontMatcher.find_best_matches *)

RECURSIVE InsertAfterEquals(_, _)
\* item placed behind every score that is greater than or equal to it.
InsertAfterEquals(sorted, item) ==
    IF sorted = <<>> THEN <<item>>
    ELSE IF FracLess(Head(sorted).similarity, item.similarity)
         THEN <<item>> \o sorted
         ELSE <<Head(sorted)>> \o InsertAfterEquals(Tail(sorted), item)

RECURSIVE InsertBeforeEquals(_, _)
\* item placed in front of every score that is less than or equal to it.
InsertBeforeEquals(sorted, item) ==
    IF sorted = <<>> THEN <<item>>
    ELSE IF FracLess(item.similarity, Head(sorted).similarity)
         THEN <<Head(sorted)>> \o InsertBeforeEquals(Tail(sorted), item)
         ELSE <<item>> \o sorted

RECURSIVE SortUnstable(_)
\* A descending sort that reverses the order of equal scores.
SortUnstable(scores) ==
    IF scores = <<>> THEN <<>>
    ELSE InsertBeforeEquals(SortUnstable(SubSeq(scores, 1, Len(scores) - 1)),
                            scores[Len(scores)])

RECURSIVE InsertAscending(_, _)
\* item placed behind every score that is less than or equal to it.
InsertAscending(sorted, item) ==
    IF sorted = <<>> THEN <<item>>
    ELSE IF FracLess(item.similarity, Head(sorted).similarity)
         THEN <<item>> \o sorted
         ELSE <<Head(sorted)>> \o InsertAscending(Tail(sorted), item)

RECURSIVE SortAscending(_)
\* A sort without reverse=True: the least similar first.
SortAscending(scores) ==
    IF scores = <<>> THEN <<>>
    ELSE InsertAscending(SortAscending(SubSeq(scores, 1, Len(scores) - 1)),
                         scores[Len(scores)])

RECURSIVE SortScores(_)
\* scores.sort(key=lambda item: item[1], reverse=True): list.sort is stable,
\* and with reverse=True equal keys still keep their original order.
SortScores(scores) ==
    IF scores = <<>> THEN <<>>
    ELSE InsertAfterEquals(SortScores(SubSeq(scores, 1, Len(scores) - 1)),
                           scores[Len(scores)])

\* A slice that ignores its stop index.
SliceAll(list, stop) == list

\* list[:stop]
SliceTo(list, stop) ==
    IF stop >= 0
    THEN SubSeq(list, 1, Min(stop, Len(list)))
    ELSE SubSeq(list, 1, Max(Len(list) + stop, 0))

RECURSIVE ScoreLoop(_, _, _)
\* The for loop over font_database.items(): scores so far, or the exception
\* of the first _cosine_similarity call that raises; calls counts the calls made.
ScoreLoop(target_vector, items, acc) ==
    IF items = <<>> THEN acc
    ELSE LET s == _cosine_similarity(target_vector, Head(items).vector)
         IN  IF s.raised # ""
             THEN [acc EXCEPT !.raised = s.raised, !.calls = @ + 1]
             ELSE ScoreLoop(target_vector, Tail(items),
                            [acc EXCEPT !.calls = @ + 1,
                                        !.scores = Append(@, [font_name  |-> Head(items).name,
                                                              similarity |-> s.value])])

\* What one call leaves behind: outcome is "return" or the exception raised,
\* result the returned list, message the line printed before an early return,
\* similarity_calls the number of _cosine_similarity calls, target_vector and
\* retained the locals of the aggregation step.
Outcome(outcome, result, message, calls, target, retained) ==
    [outcome |-> outcome, result |-> result, message |-> message,
     similarity_calls |-> calls, target_vector |-> target, retained |-> retained]

\* A version that raises on a dimension mismatch instead of returning.
find_best_matches_raising(font_database, character_features, top_n) ==
    IF font_database = <<>>
    THEN Outcome("return", <<>>, "Warning: Font database is empty", 0, <<>>, <<>>)
    ELSE LET target == _calculate_target_vector(character_features)
             kept   == Retained(character_features)
         IN  IF target = <<>>
             THEN Outcome("return", <<>>, "Info: No valid character features", 0, target, kept)
             ELSE IF Len(target[1]) # Len(font_database[1].vector)
             THEN Outcome("DimensionMismatch", <<>>, "", 0, target, kept)
             ELSE LET loop == ScoreLoop(target[1], font_database,
                                        [raised |-> "", calls |-> 0, scores |-> <<>>])
                  IN  IF loop.raised # ""
                      THEN Outcome(loop.raised, <<>>, "", loop.calls, target, kept)
                      ELSE Outcome("return", SliceTo(SortScores(loop.scores), top_n), "",
                                   loop.calls, target, kept)

\* A version that scores the database before looking at the request.
find_best_matches_eager(font_database, character_features, top_n) ==
    LET target == _calculate_target_vector(character_features)
        kept   == Retained(character_features)
    IN  IF font_database = <<>> \/ target = <<>>
        THEN Outcome("return", <<>>, "", Len(font_database), target, kept)
        ELSE find_best_matches_raising(font_database, character_features, top_n)

find_best_matches(font_database, character_features, top_n) ==
    IF font_database = <<>>
    THEN Outcome("return", <<>>, "Warning: Font database is empty", 0, <<>>, <<>>)
    ELSE LET target == _calculate_target_vector(character_features)
             kept   == Retained(character_features)
         IN  IF target = <<>>
             THEN Outcome("return", <<>>, "Info: No valid character features", 0, target, kept)
             ELSE IF Len(target[1]) # Len(font_database[1].vector)
             THEN \* sample_db_vector = next(iter(self.font_database.values()))
                  Outcome("return", <<>>, "Error: Target vector dimension", 0, target, kept)
             ELSE LET loop == ScoreLoop(target[1], font_database,
                                        [raised |-> "", calls |-> 0, scores |-> <<>>])
                  IN  IF loop.raised # ""
                      THEN Outcome(loop.raised, <<>>, "", loop.calls, target, kept)
                      ELSE Outcome("return", SliceTo(SortScores(loop.scores), top_n), "",
                                   loop.calls, target, kept)

-----------------------------------------------------------------------------
(* extract_features *)

\* A glyph bitmap is an Optional 2-D array [dtype, h, w, rows]: rows[r][c] is
\* the pixel of row r and column c (both from 1).

\* char_image.astype(np.uint8) of one integer pixel.
AsUint8(value) == value % 256

\* The pixel at 0-based flat index k of the image as uint8.
PixelAt(image, k) == AsUint8(image.rows[(k \div image.w) + 1][(k % image.w) + 1])

\* np.count_nonzero(char_image) after the cast to uint8.
CountNonzero(image) ==
    Cardinality({k \in 0..(image.h * image.w - 1) : PixelAt(image, k) # 0})

\* np.count_nonzero of the array as given, before any cast.
CountNonzeroRaw(image) ==
    Cardinality({k \in 0..(image.h * image.w - 1) :
                    image.rows[(k \div image.w) + 1][(k % image.w) + 1] # 0})

RECURSIVE MomentOver(_, _, _, _, _)
\* cv2.moments(char_image)["m<p><q>"] for p + q <= 1: the sum over the pixels
\* of x^p * y^q * intensity, x the 0-based column and y the 0-based row; here
\* over the pixels of flat index first to last, summed by halves.
MomentOver(image, p, q, first, last) ==
    IF first > last THEN 0
    ELSE IF first = last
    THEN PixelAt(image, first)
           * (IF p = 1 THEN first % image.w ELSE 1)
           * (IF q = 1 THEN first \div image.w ELSE 1)
    ELSE LET middle == (first + last) \div 2
         IN  MomentOver(image, p, q, first, middle)
               + MomentOver(image, p, q, middle + 1, last)

Moment(image, p, q) == MomentOver(image, p, q, 0, image.h * image.w - 1)

\* cv2.findContours(char_image, RETR_CCOMP, CHAIN_APPROX_SIMPLE) takes every
\* non-zero pixel for foreground, joins foreground pixels over their 8
\* neighbours and background pixels over their 4 neighbours, and treats what
\* lies around the image as background.  The image is laid out here with a
\* frame of background one pixel wide, the pixels numbered row by row.
PaddedWidth(image) == image.w + 2

PaddedIndex(image, r, c) == r * PaddedWidth(image) + c

Foreground(image) ==
    { PaddedIndex(image, r, c) : r \in 1..image.h, c \in 1..image.w }
    \cap { PaddedIndex(image, (k \div image.w) + 1, (k % image.w) + 1) :
             k \in { j \in 0..(image.h * image.w - 1) : PixelAt(image, j) # 0 } }

Background(image) ==
    (0..((image.h + 2) * PaddedWidth(image) - 1)) \ Foreground(image)

FourNeighbours(image) == { -PaddedWidth(image), -1, 1, PaddedWidth(image) }

EightNeighbours(image) ==
    FourNeighbours(image)
    \cup { -PaddedWidth(image) - 1, -PaddedWidth(image) + 1,
           PaddedWidth(image) - 1, PaddedWidth(image) + 1 }

\* The pixels of allowed joined to the seen ones over the given neighbours.
RECURSIVE Flood(_, _, _, _)
Flood(frontier, seen, allowed, offsets) ==
    IF frontier = {} THEN seen
    ELSE LET reached == ({p + d : p \in frontier, d \in offsets} \cap allowed) \ seen
         IN  Flood(reached, seen \cup reached, allowed, offsets)

\* The connected components of pixels, in the order of their first pixels.
RECURSIVE Components(_, _)
Components(pixels, offsets) ==
    IF pixels = {} THEN <<>>
    ELSE LET seed == CHOOSE p \in pixels : \A q \in pixels : p <= q
             component == Flood({seed}, {seed}, pixels, offsets)
         IN  <<component>> \o Components(pixels \ component, offsets)

\* The background components that do not reach the frame: the holes.
Holes(image) ==
    SelectSeq(Components(Background(image), FourNeighbours(image)),
              LAMBDA component : 0 \notin component)

\* The hierarchy of RETR_CCOMP: an outer contour without parent for every
\* foreground component, then for every hole a contour whose parent is the
\* outer contour of the component around it (indices from 0, -1 for none).
\* cv2 orders the contours otherwise; extract_features adds and counts over
\* all of them.
Hierarchy(image) ==
    LET outer == Components(Foreground(image), EightNeighbours(image))
        holes == Holes(image)
    IN  [k \in 1..(Len(outer) + Len(holes)) |->
            IF k <= Len(outer) THEN -1
            ELSE (CHOOSE n \in 1..Len(outer) :
                      \E p \in holes[k - Len(outer)], d \in FourNeighbours(image) :
                          p + d \in outer[n]) - 1]

\* A count of the contours that have no parent.
CountOuterContours(contours) ==
    Cardinality({k \in 1..Len(contours) : contours[k].parent = -1})

\* The loop over hierarchy[0]: contours that have a parent.
RECURSIVE CountHoles(_)
CountHoles(contours) ==
    IF contours = <<>> THEN 0
    ELSE (IF Head(contours).parent # -1 THEN 1 ELSE 0) + CountHoles(Tail(contours))

\* The loop over contours: the sums of cv2.arcLength and of cv2.contourArea.
RECURSIVE TotalPerimeter(_)
TotalPerimeter(contours) ==
    IF contours = <<>> THEN 0
    ELSE Head(contours).arc_length + TotalPerimeter(Tail(contours))

RECURSIVE TotalArea(_)
TotalArea(contours) ==
    IF contours = <<>> THEN 0
    ELSE Head(contours).area + TotalArea(Tail(contours))

\* The height divided by the width.
AspectRatioInverted(h, w) == Fraction(h, w)

\* aspect_ratio = w / h
AspectRatio(h, w) == Fraction(w, h)

\* A vector with the density in front of the aspect ratio.
FeatureVectorDensityFirst(aspect_ratio, pixel_density, norm_centroid_x, norm_centroid_y, num_holes, norm_total_perimeter, norm_total_area) ==
    << pixel_density, aspect_ratio, norm_centroid_x, norm_centroid_y,
       num_holes, norm_total_perimeter, norm_total_area >>

\* np.array([...], dtype=np.float32): the seven features in their order.
FeatureVector(aspect_ratio, pixel_density, norm_centroid_x, norm_centroid_y, num_holes, norm_total_perimeter, norm_total_area) ==
    << aspect_ratio, pixel_density, norm_centroid_x, norm_centroid_y,
       num_holes, norm_total_perimeter, norm_total_area >>

\* What one call leaves behind: the returned vector, whether cv2.findContours
\* was reached and what it reported, and whether the centroid was the
\* fallback of a zero m00.  Every return builds its array with
\* dtype=np.float32 (lines 47, 55 and 115).
Extraction(vector, found_contours, fallback, contours) ==
    [outcome |-> "return", feature_vector |-> vector, dtype |-> "float32",
     find_contours_called |-> found_contours, zero_mass_fallback |-> fallback,
     contours |-> contours]

\* An extractor without the foreground pre-check of line 54.
extract_features_no_precheck(glyph, contours) ==
    IF glyph = <<>> THEN Extraction(Zeros(FEATURE_VECTOR_SIZE), FALSE, FALSE, <<>>)
    ELSE LET image == glyph[1]
             h == image.h
             w == image.w
         IN  IF h = 0 \/ w = 0
             THEN Extraction(Zeros(FEATURE_VECTOR_SIZE), FALSE, FALSE, <<>>)
             ELSE LET m00 == Moment(image, 0, 0)
                  IN  Extraction(
                          FeatureVector(
                              AspectRatio(h, w),
                              Fraction(CountNonzero(image), h * w),
                              IF m00 = 0 THEN Fraction(1, 2)
                              ELSE Fraction(Moment(image, 1, 0), m00 * w),
                              IF m00 = 0 THEN Fraction(1, 2)
                              ELSE Fraction(Moment(image, 0, 1), m00 * h),
                              Float(CountHoles(contours)),
                              Fraction(TotalPerimeter(contours), h + w),
                              Fraction(TotalArea(contours), h * w)),
                          TRUE, m00 = 0, contours)

\* An extractor that tests for foreground before the cast to uint8.
extract_features_check_before_cast(glyph, contours) ==
    IF glyph = <<>> THEN Extraction(Zeros(FEATURE_VECTOR_SIZE), FALSE, FALSE, <<>>)
    ELSE LET image == glyph[1]
             h == image.h
             w == image.w
         IN  IF h * w = 0
             THEN Extraction(Zeros(FEATURE_VECTOR_SIZE), FALSE, FALSE, <<>>)
             ELSE IF CountNonzeroRaw(image) = 0
             THEN Extraction(Zeros(FEATURE_VECTOR_SIZE), FALSE, FALSE, <<>>)
             ELSE LET m00 == Moment(image, 0, 0)
                  IN  Extraction(
                          FeatureVector(
                              AspectRatio(h, w),
                              Fraction(CountNonzero(image), h * w),
                              IF m00 = 0 THEN Fraction(1, 2)
                              ELSE Fraction(Moment(image, 1, 0), m00 * w),
                              IF m00 = 0 THEN Fraction(1, 2)
                              ELSE Fraction(Moment(image, 0, 1), m00 * h),
                              Float(CountHoles(contours)),
                              Fraction(TotalPerimeter(contours), h + w),
                              Fraction(TotalArea(contours), h * w)),
                          TRUE, m00 = 0, contours)

\* contours: what cv2.findContours(char_image, RETR_CCOMP, CHAIN_APPROX_SIMPLE)
\* returns together with cv2.arcLength and cv2.contourArea of each contour, a
\* sequence of [parent, arc_length, area]; read only when the call is reached.
extract_features(glyph, contours) ==
    IF glyph = <<>> THEN Extraction(Zeros(FEATURE_VECTOR_SIZE), FALSE, FALSE, <<>>)
    ELSE LET image == glyph[1]
             h == image.h
             w == image.w
         IN  IF h * w = 0
             THEN \* char_image.size == 0
                  Extraction(Zeros(FEATURE_VECTOR_SIZE), FALSE, FALSE, <<>>)
             ELSE IF h = 0 \/ w = 0 \/ CountNonzero(image) = 0
             THEN Extraction(Zeros(FEATURE_VECTOR_SIZE), FALSE, FALSE, <<>>)
             ELSE LET m00 == Moment(image, 0, 0)
                  IN  Extraction(
                          FeatureVector(
                              AspectRatio(h, w),
                              Fraction(CountNonzero(image), h * w),
                              IF m00 = 0 THEN Fraction(1, 2)
                              ELSE Fraction(Moment(image, 1, 0), m00 * w),
                              IF m00 = 0 THEN Fraction(1, 2)
                              ELSE Fraction(Moment(image, 0, 1), m00 * h),
                              Float(CountHoles(contours)),
                              Fraction(TotalPerimeter(contours), h + w),
                              Fraction(TotalArea(contours), h * w)),
                          TRUE, m00 = 0, contours)

-----------------------------------------------------------------------------
(* FontSnipApp *)

\* The application object before FontSnipApp(app) runs.  image_processor:
\* whether self.image_processor was bound; error_dialog: the title of the
\* QMessageBox.critical shown, "" for none; quit_requested: app.quit() was
\* called; signal_connected: trigger_capture_signal has start_capture as its
\* slot; hotkey_listener: "none" or "started"; queued_triggers: the emissions
\* of the signal not yet delivered to the GUI thread, oldest first, each with
\* whether a capture widget was visible when it was emitted; capture_widget:
\* "none", "visible" or "closed", and widget: the attributes of the object
\* self.capture_widget refers to; aborted: the process was aborted.
\* widgets_created, created_while_visible, created_by_stale_trigger and
\* trigger_ignored record what start_capture has done so far.
NoApp ==
    [constructed |-> FALSE, tray_icon |-> FALSE, image_processor |-> FALSE,
     error_dialog |-> "", quit_requested |-> FALSE, signal_connected |-> FALSE,
     hotkey_listener |-> "none", queued_triggers |-> <<>>, capture_widget |-> "none",
     widget |-> <<>>, aborted |-> FALSE, widgets_created |-> 0,
     created_while_visible |-> FALSE, created_by_stale_trigger |-> FALSE,
     trigger_ignored |-> FALSE]

show_error_and_quit(self, title) ==
    [self EXCEPT !.error_dialog = title, !.quit_requested = TRUE]

\* hotkey: "ok" or the exception keyboard.GlobalHotKeys raises.
setup_hotkey_listener(self, hotkey) ==
    IF hotkey = "ok"
    THEN [self EXCEPT !.hotkey_listener = "started"]
    ELSE show_error_and_quit(self, "Hotkey Error")

\* The title chosen by the except clauses of __init__.
StartupErrorTitle(exception) ==
    IF exception = "FileNotFoundError" THEN "Font Database Not Found"
    ELSE "Initialization Error"

\* A constructor whose except clauses do not return.
FontSnipApp__init__falling_through(reader, loaded, hotkey) ==
    LET self == [NoApp EXCEPT !.constructed = TRUE, !.tray_icon = TRUE]
        failed ==
            IF reader # "ok" THEN show_error_and_quit(self, StartupErrorTitle(reader))
            ELSE IF loaded # "ok"
            THEN show_error_and_quit([self EXCEPT !.image_processor = TRUE],
                                     StartupErrorTitle(loaded))
            ELSE [self EXCEPT !.image_processor = TRUE]
    IN  setup_hotkey_listener([failed EXCEPT !.signal_connected = TRUE], hotkey)

\* FontSnipApp.__init__.  reader: "ok" or the exception ImageProcessor()
\* raises; loaded: the outcome of FontMatcher(FONT_DATABASE_PATH), read only
\* when the reader was built; hotkey: as for setup_hotkey_listener.
FontSnipApp__init__(reader, loaded, hotkey) ==
    LET self == [NoApp EXCEPT !.constructed = TRUE, !.tray_icon = TRUE]
    IN  IF reader # "ok"
        THEN show_error_and_quit(self, StartupErrorTitle(reader))
        ELSE IF loaded # "ok"
        THEN show_error_and_quit([self EXCEPT !.image_processor = TRUE],
                                 StartupErrorTitle(loaded))
        ELSE setup_hotkey_listener(
                 [self EXCEPT !.image_processor = TRUE, !.signal_connected = TRUE],
                 hotkey)

\* CaptureWidget.__init__: no selection yet.  emitted: the rectangles
\* region_selected was emitted with; closed_by: the event whose handler closed
\* the widget, <<>> while none has.
CaptureWidget ==
    [_is_selecting |-> FALSE, _start_pos |-> <<>>, _end_pos |-> <<>>,
     emitted |-> <<>>, closed_by |-> <<>>]

\* A slot that shows a new overlay whatever the old one does.
start_capture_unguarded(self) ==
    [self EXCEPT !.capture_widget = "visible", !.widget = <<CaptureWidget>>,
                 !.widgets_created = @ + 1]

\* FontSnipApp.start_capture, the slot of trigger_capture_signal.
start_capture(self) ==
    IF self.capture_widget = "visible" THEN self
    ELSE [self EXCEPT !.capture_widget = "visible", !.widget = <<CaptureWidget>>,
                      !.widgets_created = @ + 1]

\* QRect(start, end).normalized() for two points <<x, y>>: the corners are
\* exchanged along an axis on which the second lies more than one before the
\* first, so that the width and the height are not negative.
Normalized(start, end) ==
    [x1 |-> IF end[1] < start[1] - 1 THEN end[1] + 1 ELSE start[1],
     x2 |-> IF end[1] < start[1] - 1 THEN start[1] - 1 ELSE end[1],
     y1 |-> IF end[2] < start[2] - 1 THEN end[2] + 1 ELSE start[2],
     y2 |-> IF end[2] < start[2] - 1 THEN start[2] - 1 ELSE end[2]]

\* QRect.width() and QRect.height()
Width(rect) == rect.x2 - rect.x1 + 1

Height(rect) == rect.y2 - rect.y1 + 1

\* What a handler of the widget does: the widget after it, whether it called
\* self.close(), and the rectangle it emitted region_selected with (Optional).
Handled(widget, closes, emits) == [widget |-> widget, closes |-> closes, emits |-> emits]

\* CaptureWidget.keyPressEvent
keyPressEvent(self, key) ==
    IF key = "Key_Escape"
    THEN Handled([self EXCEPT !.closed_by = <<"keyPressEvent", key>>], TRUE, <<>>)
    ELSE Handled(self, FALSE, <<>>)

\* CaptureWidget.mousePressEvent
mousePressEvent(self, button, position) ==
    IF button = "LeftButton"
    THEN Handled([self EXCEPT !._is_selecting = TRUE, !._start_pos = <<position>>,
                              !._end_pos = <<position>>], FALSE, <<>>)
    ELSE Handled(self, FALSE, <<>>)

\* CaptureWidget.mouseMoveEvent
mouseMoveEvent(self, position) ==
    IF self._is_selecting
    THEN Handled([self EXCEPT !._end_pos = <<position>>], FALSE, <<>>)
    ELSE Handled(self, FALSE, <<>>)

\* A release handler that emits whatever the size of the rectangle.
mouseReleaseEvent_any_size(self, button) ==
    IF button = "LeftButton" /\ self._is_selecting
    THEN LET selection_rect == Normalized(self._start_pos[1], self._end_pos[1])
         IN  Handled([self EXCEPT !._is_selecting = FALSE,
                                  !.emitted = Append(@, selection_rect),
                                  !.closed_by = <<"mouseReleaseEvent", button>>],
                     TRUE, <<selection_rect>>)
    ELSE Handled(self, FALSE, <<>>)

\* CaptureWidget.mouseReleaseEvent
mouseReleaseEvent(self, button) ==
    IF button = "LeftButton" /\ self._is_selecting
    THEN LET selection_rect == Normalized(self._start_pos[1], self._end_pos[1])
             emits == Width(selection_rect) > 5 /\ Height(selection_rect) > 5
         IN  Handled([self EXCEPT !._is_selecting = FALSE,
                                  !.emitted = IF emits THEN Append(@, selection_rect) ELSE @,
                                  !.closed_by = <<"mouseReleaseEvent", button>>],
                     TRUE, IF emits THEN <<selection_rect>> ELSE <<>>)
    ELSE Handled(self, FALSE, <<>>)

\* The application after a handler of its capture widget.  An emission of
\* region_selected calls its slot process_capture(image_np, geometry) with the
\* one argument of the signal: the TypeError is raised inside Qt's event
\* handling, where no Python frame can catch it, and PyQt6 aborts the process;
\* the overlay goes with it and close() is not reached.
AfterHandler(self, handled) ==
    IF handled.emits # <<>>
    THEN [self EXCEPT !.widget = <<handled.widget>>, !.capture_widget = "closed",
                      !.aborted = TRUE]
    ELSE [self EXCEPT !.widget = <<handled.widget>>,
                      !.capture_widget = IF handled.closes THEN "closed" ELSE @]

-----------------------------------------------------------------------------
(* ImageProcessor and FontSnipApp.process_capture *)

\* Python values that meet in process_capture: a NumPy array, of which only
\* the shape matters here, and a list.  A confidence is a number of
\* hundredths, so 0.60 is 60.
NdArray(shape) == [type |-> "ndarray", shape |-> shape, items |-> <<>>]

List(items) == [type |-> "list", shape |-> <<>>, items |-> items]

RECURSIVE Product(_)
Product(shape) == IF shape = <<>> THEN 1 ELSE Head(shape) * Product(Tail(shape))

\* array.size
Size(array) == Product(array.shape)

\* bool(value) as `if not recognized_data` asks for it: the emptiness of a
\* list; for an array of more than one element a ValueError, and for an
\* array without elements False in the NumPy releases that only warn and a
\* ValueError in those that no longer do (empty_truth names which).  An array
\* of one element has the truth of that element, here a non-zero pixel.
Truth(value, empty_truth) ==
    IF value.type = "list" THEN (IF value.items = <<>> THEN "False" ELSE "True")
    ELSE IF Size(value) = 0 THEN empty_truth
    ELSE IF Size(value) = 1 THEN "True"
    ELSE "ValueError"

\* ImageProcessor._preprocess: `h, w, _ = image_np.shape` needs three
\* dimensions; the result is the binarized image, three times as high and wide.
_preprocess(image_np) ==
    IF Len(image_np.shape) # 3
    THEN [raised |-> "ValueError", image |-> NdArray(<<>>)]
    ELSE [raised |-> "",
          image |-> NdArray(<<image_np.shape[1] * UPSCALE_FACTOR,
                              image_np.shape[2] * UPSCALE_FACTOR>>)]

\* A filter that asks for more than the threshold.
_run_ocr_above_threshold(readtext) ==
    IF readtext.raised # "" THEN <<>>
    ELSE SelectSeq(readtext.results,
                   LAMBDA result : result[3] > OCR_CONFIDENCE_THRESHOLD)

\* ImageProcessor._run_ocr.  readtext: how self.reader.readtext(...) ends, the
\* exception it raises or "" and the (bbox, text, confidence) tuples it returns.
_run_ocr(readtext) ==
    IF readtext.raised # "" THEN <<>>
    ELSE SelectSeq(readtext.results,
                   LAMBDA result : result[3] >= OCR_CONFIDENCE_THRESHOLD)

\* The dictionary process_image makes of one tuple.
Formatted(result) == [bbox |-> result[1], text |-> result[2], confidence |-> result[3]]

\* What a call of process_image leaves behind: the exception that left it or
\* "", the tuple returned, and whether _preprocess and _run_ocr were called.
Processed(raised, value, preprocess_called, ocr_called) ==
    [raised |-> raised, value |-> value,
     preprocess_called |-> preprocess_called, ocr_called |-> ocr_called]

\* A process_image without the test of line 149: cv2.resize raises on an
\* image without pixels and `None.shape` is an AttributeError.
process_image_no_precheck(image_np, readtext) ==
    IF image_np = <<>> THEN Processed("AttributeError", <<>>, TRUE, FALSE)
    ELSE LET preprocessed == _preprocess(image_np[1])
         IN  IF preprocessed.raised # ""
             THEN Processed(preprocessed.raised, <<>>, TRUE, FALSE)
             ELSE IF Size(image_np[1]) = 0 THEN Processed("cv2.error", <<>>, TRUE, FALSE)
             ELSE LET ocr_results == _run_ocr(readtext)
                  IN  Processed("",
                          << preprocessed.image,
                             List([k \in 1..Len(ocr_results) |-> Formatted(ocr_results[k])]) >>,
                          TRUE, TRUE)

\* ImageProcessor.process_image.  image_np: an Optional array.
process_image(image_np, readtext) ==
    IF image_np = <<>> THEN Processed("", << NdArray(<<0>>), List(<<>>) >>, FALSE, FALSE)
    ELSE IF Size(image_np[1]) = 0
    THEN Processed("", << NdArray(<<0>>), List(<<>>) >>, FALSE, FALSE)
    ELSE LET preprocessed == _preprocess(image_np[1])
         IN  IF preprocessed.raised # ""
             THEN Processed(preprocessed.raised, <<>>, TRUE, FALSE)
             ELSE LET ocr_results == _run_ocr(readtext)
                  IN  Processed("",
                          << preprocessed.image,
                             List([k \in 1..Len(ocr_results) |-> Formatted(ocr_results[k])]) >>,
                          TRUE, TRUE)

\* What a call of process_capture leaves behind: the title of the tray
\* notification shown or "", the two names bound at line 170 (Optionals, empty
\* when process_image raised), the arguments find_best_matches was called
\* with (an Optional pair), and the number of extract_features calls made.
Captured(notification, recognized_data, preprocessed_image, matcher_arguments) ==
    [notification |-> notification, recognized_data |-> recognized_data,
     preprocessed_image |-> preprocessed_image,
     matcher_arguments |-> matcher_arguments, extract_features_calls |-> 0]

\* FontSnipApp.process_capture up to the call of find_best_matches.
\* returned: how self.image_processor.process_image(image_np) ended.  Line 170
\* binds the first component of the tuple to recognized_data and the second
\* to preprocessed_image; line 182 passes the two, in this order, as
\* character_features and top_n.  No line calls extract_features.
process_capture(returned, empty_truth) ==
    IF returned.raised # "" THEN Captured("Processing Error", <<>>, <<>>, <<>>)
    ELSE LET recognized_data == returned.value[1]
             preprocessed_image == returned.value[2]
             truth == Truth(recognized_data, empty_truth)
         IN  IF truth = "ValueError"
             THEN Captured("Processing Error", <<recognized_data>>, <<preprocessed_image>>, <<>>)
             ELSE IF truth = "False"
             THEN Captured("No text found", <<recognized_data>>, <<preprocessed_image>>, <<>>)
             ELSE Captured("", <<recognized_data>>, <<preprocessed_image>>,
                           << <<recognized_data, preprocessed_image>> >>)

-----------------------------------------------------------------------------
(* The inputs tried *)

\* len components: the first two given, the others 0.
Pattern(len, a, b) == [i \in 1..len |-> IF i = 1 THEN a ELSE IF i = 2 THEN b ELSE 0]

FontNames == {"Arial.ttf", "Courier New.ttf", "Times New Roman.ttf"}

\* Feature lists a pickled mapping may hold for a font: three of the
\* extractor's size (one of them all zero) and one of the demo's size.
StoredFeatures ==
    { Pattern(FEATURE_VECTOR_SIZE, 1, 0), Pattern(FEATURE_VECTOR_SIZE, -1, 1),
      Pattern(FEATURE_VECTOR_SIZE, 0, 0), Pattern(DEMO_VECTOR_SIZE, 1, 0) }

\* Sequences of items with pairwise different keys, in any key order.
Mappings ==
    UNION { { m \in [1..n -> [name : FontNames, features : StoredFeatures]] :
                \A i, j \in 1..n : i # j => m[i].name # m[j].name }
            : n \in 0..MaxFonts }

Files ==
    { [kind |-> k, items |-> <<>>] :
        k \in {"absent", "truncated", "garbage", "not_mapping", "text_mapping"} }
    \cup { [kind |-> "mapping", items |-> m] : m \in Mappings }

\* Per-character feature vectors a caller may pass.
CharacterVectors ==
    { Vec(Pattern(FEATURE_VECTOR_SIZE, 1, 0)), Vec(Pattern(FEATURE_VECTOR_SIZE, 1, 2)),
      Vec(Pattern(FEATURE_VECTOR_SIZE, 0, 0)), Vec(Pattern(DEMO_VECTOR_SIZE, 1, 1)) }

FeatureLists == UNION { [1..n -> CharacterVectors] : n \in 0..MaxChars }

TopNs == ((-1)..MaxTopN) \cup {DEFAULT_TOP_N}

\* Glyph bitmaps: None, and 2-D arrays up to MaxDim x MaxDim (zero-area ones
\* included) of dtype uint8 with pixels 0 / 255 or of dtype int32 with
\* pixels 256 / 511.
PixelValues(dtype) == IF dtype = "uint8" THEN {0, 255} ELSE {256, 511}

GlyphBitmaps ==
    { <<>> } \cup
    UNION { { <<[dtype |-> d, h |-> h, w |-> w, rows |-> rows]>> :
                rows \in [1..h -> [1..w -> PixelValues(d)]] }
            : d \in {"uint8", "int32"}, h \in 0..MaxDim, w \in 0..MaxDim }

\* A filled rectangle of foreground from 3 to MaxSide pixels high and wide,
\* with up to two pixels carved out of its inside.
CarvedGlyphs ==
    UNION { { <<[dtype |-> "uint8", h |-> h, w |-> w,
                 rows |-> [r \in 1..h |-> [c \in 1..w |->
                              IF <<r, c>> \in carved THEN 0 ELSE 255]]]>> :
                carved \in { cells \in SUBSET ((2..(h - 1)) \X (2..(w - 1))) :
                                Cardinality(cells) <= 2 } }
            : h \in 3..MaxSide, w \in 3..MaxSide }

\* cv2.rectangle(img, (x1, y1), (x2, y2), color, -1) on np.zeros((h, w)): the
\* colour of the last rectangle that covers the pixel of column x and row y.
RECURSIVE ColourAt(_, _, _)
ColourAt(rectangles, x, y) ==
    IF rectangles = <<>> THEN 0
    ELSE LET last == rectangles[Len(rectangles)]
         IN  IF last[1] <= x /\ x <= last[3] /\ last[2] <= y /\ y <= last[4]
             THEN last[5]
             ELSE ColourAt(SubSeq(rectangles, 1, Len(rectangles) - 1), x, y)

Drawn(h, w, rectangles) ==
    <<[dtype |-> "uint8", h |-> h, w |-> w,
       rows |-> [r \in 1..h |-> [c \in 1..w |-> ColourAt(rectangles, c - 1, r - 1)]]]>>

\* The fixtures of tests/test_feature_extractor.py and a bar lying on its side.
image_o == Drawn(20, 20, << <<3, 3, 16, 16, 255>>, <<6, 6, 13, 13, 0>> >>)

image_i == Drawn(20, 10, << <<4, 2, 5, 17, 255>> >>)

image_l == Drawn(20, 15, << <<2, 2, 4, 17, 255>>, <<4, 15, 12, 17, 255>> >>)

image_b ==
    Drawn(30, 20, << <<2, 2, 17, 27, 255>>, <<5, 5, 14, 11, 0>>,
                     <<5, 16, 14, 24, 0>>, <<2, 13, 17, 14, 0>> >>)

image_all_white == Drawn(10, 10, << <<0, 0, 9, 9, 255>> >>)

image_lying_bar == Drawn(10, 20, << <<2, 4, 17, 5, 255>> >>)

FixtureGlyphs == { image_o, image_i, image_l, image_b, image_all_white, image_lying_bar }

Glyphs == GlyphBitmaps \cup CarvedGlyphs \cup FixtureGlyphs

\* cv2.arcLength and cv2.contourArea of one contour: those of a contour of a
\* single point, and those of a larger one.
ContourMeasures ==
    { [arc_length |-> 0, area |-> 0], [arc_length |-> 2 * MaxMeasure, area |-> MaxMeasure] }

\* What cv2 may report for a glyph: the hierarchy of the bitmap and for each
\* contour its measures, a sequence of [parent, arc_length, area].  Nothing for
\* None and for an array without pixels, where no call is made.
ContourLists(glyph) ==
    IF glyph = <<>> THEN { <<>> }
    ELSE IF glyph[1].h * glyph[1].w = 0 THEN { <<>> }
    ELSE LET hierarchy == Hierarchy(glyph[1])
         IN  { [k \in 1..Len(hierarchy) |->
                   [parent |-> hierarchy[k],
                    arc_length |-> measures[k].arc_length,
                    area |-> measures[k].area]] :
                 measures \in [1..Len(hierarchy) -> ContourMeasures] }

\* How easyocr.Reader(...) and keyboard.GlobalHotKeys(...) may end.
ReaderOutcomes == {"ok", "FileNotFoundError", "RuntimeError"}

HotkeyOutcomes == {"ok", "ValueError"}

\* Raw captures: None, BGR arrays without pixels, BGR arrays with pixels, and
\* a 2-D array.
RawCaptures ==
    { <<>>, <<NdArray(<<0, 0, 3>>)>>, <<NdArray(<<0, 2, 3>>)>>, <<NdArray(<<1, 1, 3>>)>>,
      <<NdArray(<<2, 1, 3>>)>>, <<NdArray(<<2, 2>>)>> }

\* Confidences easyocr may report, in hundredths.
Confidences == {0, OCR_CONFIDENCE_THRESHOLD - 1, OCR_CONFIDENCE_THRESHOLD, 100}

\* How reader.readtext may end: an exception, or up to MaxDetections tuples
\* (bbox, text, confidence), the bbox of the k-th being k.
ReadtextOutcomes ==
    { [raised |-> "RuntimeError", results |-> <<>>] } \cup
    { [raised |-> "", results |-> [k \in 1..n |-> <<k, texts[k], confidences[k]>>]] :
        n \in 0..MaxDetections,
        texts \in [1..MaxDetections -> {"a", "b"}],
        confidences \in [1..MaxDetections -> Confidences] }

\* bool() of an empty array: see Truth.
EmptyTruths == {"False", "ValueError"}

\* Keys and mouse buttons the overlay may receive, and positions <<x, y>> of
\* the pointer.
Keys == {"Key_Escape", "Key_Return"}

Buttons == {"LeftButton", "RightButton"}

Points == { <<0, 0>>, <<5, 5>>, <<6, 0>>, <<7, 7>> }

\* The files tried at FONT_DATABASE_PATH by the application: every kind of
\* file, the mappings with at most one font.
AppFiles == { file \in Files : Len(file.items) <= 1 }

\* The worked example: the database of FontA and FontB, in either order of
\* its keys, and the target of the example; the numbers are hundredths.
ExampleFonts ==
    << [name |-> "FontA", features |-> <<80, 50, 20, 90, 0, 30, 40>>, unit |-> 100],
       [name |-> "FontB", features |-> <<10, 10, 90, 10, 200, 90, 10>>, unit |-> 100] >>

ExampleFiles ==
    { [kind |-> "mapping", items |-> ExampleFonts],
      [kind |-> "mapping", items |-> <<ExampleFonts[2], ExampleFonts[1]>>] }

ExampleTarget == Decimals(<<81, 52, 19, 88, 0, 31, 39>>, 100)

\* Requests made of the example database: the target and the two stored
\* vectors, alone or several of them.
ExampleVectors ==
    { ExampleTarget, Decimals(ExampleFonts[1].features, 100),
      Decimals(ExampleFonts[2].features, 100) }

ExampleLists == UNION { [1..n -> ExampleVectors] : n \in 0..MaxChars }

-----------------------------------------------------------------------------
(* State machine *)

NoCall ==
    [op |-> "none", character_features |-> <<>>, top_n |-> 0, outcome |-> "",
     result |-> <<>>, message |-> "", similarity_calls |-> 0,
     target_vector |-> <<>>, retained |-> <<>>]

CallRecord(op, character_features, top_n, out) ==
    [op |-> op, character_features |-> character_features, top_n |-> top_n,
     outcome |-> out.outcome, result |-> out.result, message |-> out.message,
     similarity_calls |-> out.similarity_calls,
     target_vector |-> out.target_vector, retained |-> out.retained]

NotLoaded == [outcome |-> "pending", opened |-> FALSE]

NotExtracted ==
    [outcome |-> "pending", feature_vector |-> <<>>, dtype |-> "",
     find_contours_called |-> FALSE, zero_mass_fallback |-> FALSE, contours |-> <<>>]

\* No direct call of _cosine_similarity yet.  After a call: its arguments, the exception it raised or "",
\* the float it returned, and in previous the call before it (without that
\* call's own previous).
NoCosine ==
    [called |-> FALSE, vec1 |-> <<>>, vec2 |-> <<>>, raised |-> "",
     value |-> ZeroSimilarity, previous |-> <<>>]

\* No call of process_image or process_capture yet.  After one: op, the
\* arguments, how process_image ended (returned) and, for process_capture,
\* what it left behind (captured, an Optional).
NoPipeline ==
    [op |-> "none", image_np |-> <<>>, readtext |-> [raised |-> "", results |-> <<>>],
     returned |-> Processed("", <<>>, FALSE, FALSE), captured |-> <<>>]

\* FontMatcher(db_path): the object exists only if _load_database returns.
FontMatcher ==
    /\ load.outcome = "pending"
    /\ LET loaded == _load_database(db_file)
       IN  /\ load' = [outcome |-> loaded.outcome, opened |-> loaded.opened]
           /\ font_matcher' =
                  IF loaded.outcome = "ok"
                  THEN <<[font_database |-> loaded.font_database[1]]>>
                  ELSE <<>>
    /\ UNCHANGED <<db_file, call, remembered, char_image, extraction, app, threads, cosine, pipeline>>

\* A dict that the call re-orders: the fonts of the result first, in the
\* result's order, the others behind them.
FontDatabaseMovedToFront(font_database, result) ==
    [i \in 1..Len(result) |->
        CHOOSE item \in {font_database[k] : k \in 1..Len(font_database)} :
            item.name = result[i].font_name]
    \o SelectSeq(font_database,
                 LAMBDA item : \A i \in 1..Len(result) : result[i].font_name # item.name)

\* A dict from which the call pops the fonts it returns.
FontDatabasePopped(font_database, result) ==
    SelectSeq(font_database,
              LAMBDA item : \A i \in 1..Len(result) : result[i].font_name # item.name)

\* The dict self.font_database after a find_best_matches call: the call
\* builds and sorts its own list and leaves the dict alone.
FontDatabaseAfterMatching(font_database, result) == font_database

\* matcher.find_best_matches(character_features, top_n), but for what the
\* observer remembers of it.
FindBestMatchesStep(character_features, top_n) ==
    /\ font_matcher # <<>>
    /\ LET out == find_best_matches(font_matcher[1].font_database, character_features, top_n)
       IN  /\ call' = CallRecord("find_best_matches", character_features, top_n, out)
           /\ font_matcher' =
                  <<[font_database |->
                        FontDatabaseAfterMatching(font_matcher[1].font_database, out.result)]>>
    /\ UNCHANGED <<db_file, load, char_image, extraction, app, threads, cosine, pipeline>>

FindBestMatchesCall(character_features, top_n) ==
    /\ FindBestMatchesStep(character_features, top_n)
    /\ UNCHANGED remembered

\* The same call with the first call of the run remembered, and a note of
\* whether a call with other arguments came after it.
FindBestMatchesRemembered(character_features, top_n) ==
    /\ FindBestMatchesStep(character_features, top_n)
    /\ remembered' =
           IF remembered = <<>>
           THEN <<[first |-> call', others |-> FALSE]>>
           ELSE <<[remembered[1] EXCEPT !.others =
                      @ \/ character_features # remembered[1].first.character_features
                        \/ top_n # remembered[1].first.top_n]>>

\* FontMatcher._calculate_target_vector(character_features), a static method.
CalculateTargetVectorCall(character_features) ==
    /\ call' = CallRecord("_calculate_target_vector", character_features, 0,
                          Outcome("return", <<>>, "", 0,
                                  _calculate_target_vector(character_features),
                                  Retained(character_features)))
    /\ UNCHANGED <<db_file, font_matcher, load, remembered, char_image, extraction, app, threads, cosine, pipeline>>

\* extract_features(char_image)
ExtractFeaturesCall ==
    /\ extraction.outcome = "pending"
    /\ \E contours \in ContourLists(char_image) :
           extraction' = extract_features(char_image, contours)
    /\ UNCHANGED <<db_file, font_matcher, load, call, remembered, char_image, app, threads, cosine, pipeline>>

\* The matcher: a file at db_path, one construction, then one request.
Init ==
    /\ db_file \in Files
    /\ font_matcher = <<>>
    /\ load = NotLoaded
    /\ call = NoCall
    /\ remembered = <<>>
    /\ char_image = <<>>
    /\ extraction = NotExtracted
    /\ app = NoApp
    /\ threads = <<>>
    /\ cosine = NoCosine
    /\ pipeline = NoPipeline

Next ==
    \/ FontMatcher
    \/ /\ call = NoCall
       /\ \E character_features \in FeatureLists, top_n \in TopNs :
              FindBestMatchesCall(character_features, top_n)
    \/ /\ call = NoCall
       /\ \E character_features \in FeatureLists :
              CalculateTargetVectorCall(character_features)

Spec == Init /\ [][Next]_vars

\* The extractor: one glyph, one call.
InitExtract ==
    /\ db_file = [kind |-> "absent", items |-> <<>>]
    /\ font_matcher = <<>>
    /\ load = NotLoaded
    /\ call = NoCall
    /\ remembered = <<>>
    /\ char_image \in Glyphs
    /\ extraction = NotExtracted
    /\ app = NoApp
    /\ threads = <<>>
    /\ cosine = NoCosine
    /\ pipeline = NoPipeline

NextExtract == ExtractFeaturesCall

SpecExtract == InitExtract /\ [][NextExtract]_vars

\* The matcher under repeated requests drawn from a small set.
RepeatLists ==
    { <<>>, <<Vec(Pattern(FEATURE_VECTOR_SIZE, 1, 0))>>,
      <<Vec(Pattern(FEATURE_VECTOR_SIZE, 0, 0))>> }

RepeatTopNs == {1, MaxTopN}

NextRepeat ==
    \/ FontMatcher
    \/ \E character_features \in RepeatLists, top_n \in RepeatTopNs :
           FindBestMatchesRemembered(character_features, top_n)

SpecRepeat == Init /\ [][NextRepeat]_vars

\* FontSnipApp(app): the tray icon, the two components, then the signal and
\* the hotkey listener.
FontSnipApp ==
    /\ ~app.constructed
    /\ load.outcome = "pending"
    /\ \E reader \in ReaderOutcomes, hotkey \in HotkeyOutcomes :
           LET loaded == _load_database(db_file)
           IN  /\ app' = FontSnipApp__init__(reader, loaded.outcome, hotkey)
               /\ load' = IF reader = "ok"
                          THEN [outcome |-> loaded.outcome, opened |-> loaded.opened]
                          ELSE load
               /\ font_matcher' =
                      IF reader = "ok" /\ loaded.outcome = "ok"
                      THEN <<[font_database |-> loaded.font_database[1]]>>
                      ELSE <<>>
    /\ UNCHANGED <<db_file, call, remembered, char_image, extraction, threads, cosine, pipeline>>

\* on_hotkey_activated, run by the started listener's thread: the emission is
\* queued for the GUI thread if the signal has a slot and is lost otherwise.
OnHotkeyActivated ==
    /\ app.hotkey_listener = "started"
    /\ ~app.aborted
    /\ Len(app.queued_triggers) < MaxTriggers
    /\ app' = IF app.signal_connected
              THEN [app EXCEPT !.queued_triggers =
                        Append(@, [while_visible |-> app.capture_widget = "visible"])]
              ELSE app
    /\ UNCHANGED <<db_file, font_matcher, load, call, remembered, char_image, extraction, threads, cosine, pipeline>>

\* The GUI thread delivers the oldest queued emission to start_capture.
StartCapture ==
    /\ app.queued_triggers # <<>>
    /\ ~app.aborted
    /\ app.capture_widget = "visible" \/ app.widgets_created < MaxWidgets
    /\ LET trigger == Head(app.queued_triggers)
           delivered == start_capture([app EXCEPT !.queued_triggers = Tail(@)])
           created == delivered.widgets_created > app.widgets_created
       IN  app' = [delivered EXCEPT
                      !.created_while_visible =
                          @ \/ (created /\ app.capture_widget = "visible"),
                      !.created_by_stale_trigger = @ \/ (created /\ trigger.while_visible),
                      !.trigger_ignored = @ \/ ~created]
    /\ UNCHANGED <<db_file, font_matcher, load, call, remembered, char_image, extraction, threads, cosine, pipeline>>

\* CaptureWidget.keyPressEvent on the visible overlay: Escape closes it.
CaptureWidgetEscape ==
    /\ app.capture_widget = "visible"
    /\ ~app.aborted
    /\ \E key \in Keys :
           app' = AfterHandler(app, keyPressEvent(app.widget[1], key))
    /\ UNCHANGED <<db_file, font_matcher, load, call, remembered, char_image, extraction, threads, cosine, pipeline>>

\* CaptureWidget.mousePressEvent on the visible overlay.
CaptureWidgetMousePress ==
    /\ app.capture_widget = "visible"
    /\ ~app.aborted
    /\ \E button \in Buttons, position \in Points :
           app' = AfterHandler(app, mousePressEvent(app.widget[1], button, position))
    /\ UNCHANGED <<db_file, font_matcher, load, call, remembered, char_image, extraction, threads, cosine, pipeline>>

\* CaptureWidget.mouseMoveEvent on the visible overlay.
CaptureWidgetMouseMove ==
    /\ app.capture_widget = "visible"
    /\ ~app.aborted
    /\ \E position \in Points :
           app' = AfterHandler(app, mouseMoveEvent(app.widget[1], position))
    /\ UNCHANGED <<db_file, font_matcher, load, call, remembered, char_image, extraction, threads, cosine, pipeline>>

\* CaptureWidget.mouseReleaseEvent on the visible overlay.
CaptureWidgetMouseRelease ==
    /\ app.capture_widget = "visible"
    /\ ~app.aborted
    /\ \E button \in Buttons :
           app' = AfterHandler(app, mouseReleaseEvent(app.widget[1], button))
    /\ UNCHANGED <<db_file, font_matcher, load, call, remembered, char_image, extraction, threads, cosine, pipeline>>

\* The application: a file at FONT_DATABASE_PATH, the start-up, then hotkey
\* activations and the GUI thread's events.
NextApp ==
    \/ FontSnipApp
    \/ OnHotkeyActivated
    \/ StartCapture
    \/ CaptureWidgetEscape
    \/ CaptureWidgetMousePress
    \/ CaptureWidgetMouseMove
    \/ CaptureWidgetMouseRelease

InitApp ==
    /\ db_file \in AppFiles
    /\ font_matcher = <<>>
    /\ load = NotLoaded
    /\ call = NoCall
    /\ remembered = <<>>
    /\ char_image = <<>>
    /\ extraction = NotExtracted
    /\ app = NoApp
    /\ threads = <<>>
    /\ cosine = NoCosine
    /\ pipeline = NoPipeline

SpecApp == InitApp /\ [][NextApp]_vars

-----------------------------------------------------------------------------
(* find_best_matches run by several threads on one FontMatcher *)

\* The frame of a thread: its position in find_best_matches, the arguments
\* and the locals target_vector and scores, the index of the next item of
\* font_database.items(), and how the call ended.  overlapped notes that the
\* call returned its slice while another thread was in the middle of its
\* scoring loop.
IdleFrame ==
    [pc |-> "idle", character_features |-> <<>>, top_n |-> 0, target_vector |-> <<>>,
     i |-> 0, scores |-> <<>>, outcome |-> "", result |-> <<>>, overlapped |-> FALSE]

Returned(frame, outcome, result) ==
    [frame EXCEPT !.pc = "done", !.outcome = outcome, !.result = result]

\* scores kept in one list that all the frames append to.
AppendScoreShared(frames, t, pair) ==
    [u \in DOMAIN frames |-> [frames[u] EXCEPT !.scores = Append(@, pair)]]

\* scores.append((font_name, similarity)) on the list local to the frame of t.
AppendScore(frames, t, pair) ==
    [frames EXCEPT ![t].scores = Append(@, pair)]

CallingThreads == 1..MaxThreads

\* The requests the threads make.
ConcurrentRequests ==
    { [character_features |-> <<Vec(Pattern(FEATURE_VECTOR_SIZE, 1, 0))>>, top_n |-> 1],
      [character_features |-> <<Vec(Pattern(FEATURE_VECTOR_SIZE, 1, 2))>>, top_n |-> MaxTopN] }

\* The order in which the files of this section list their fonts.
FontNameOrder == <<"Arial.ttf", "Courier New.ttf", "Times New Roman.ttf">>

\* Mappings of the fonts in that order, a zero vector in none of them.
ConcurrentFiles ==
    { f \in Files :
        /\ f.kind = "mapping"
        /\ \A k \in 1..Len(f.items) :
               /\ f.items[k].name = FontNameOrder[k]
               /\ \E c \in 1..Len(f.items[k].features) : f.items[k].features[c] # 0 }

\* A thread calls matcher.find_best_matches(character_features, top_n).
ThreadCall(t) ==
    /\ font_matcher # <<>>
    /\ threads[t].pc = "idle"
    /\ \E request \in ConcurrentRequests :
           threads' = [threads EXCEPT ![t] =
                          [IdleFrame EXCEPT !.pc = "entered",
                                            !.character_features = request.character_features,
                                            !.top_n = request.top_n]]
    /\ UNCHANGED <<db_file, font_matcher, load, call, remembered, char_image, extraction, app, cosine, pipeline>>

\* if not self.font_database
ThreadEnter(t) ==
    /\ threads[t].pc = "entered"
    /\ threads' = [threads EXCEPT ![t] =
                      IF font_matcher[1].font_database = <<>>
                      THEN Returned(@, "return", <<>>)
                      ELSE [@ EXCEPT !.pc = "aggregate"]]
    /\ UNCHANGED <<db_file, font_matcher, load, call, remembered, char_image, extraction, app, cosine, pipeline>>

\* target_vector = self._calculate_target_vector(character_features)
ThreadAggregate(t) ==
    /\ threads[t].pc = "aggregate"
    /\ LET target == _calculate_target_vector(threads[t].character_features)
       IN  threads' = [threads EXCEPT ![t] =
                          IF target = <<>>
                          THEN Returned(@, "return", <<>>)
                          ELSE [@ EXCEPT !.pc = "check", !.target_vector = target]]
    /\ UNCHANGED <<db_file, font_matcher, load, call, remembered, char_image, extraction, app, cosine, pipeline>>

\* The dimension check against the first vector of the dict, then scores = [].
ThreadCheck(t) ==
    /\ threads[t].pc = "check"
    /\ threads' = [threads EXCEPT ![t] =
                      IF Len(@.target_vector[1]) # Len(font_matcher[1].font_database[1].vector)
                      THEN Returned(@, "return", <<>>)
                      ELSE [@ EXCEPT !.pc = "loop", !.i = 1, !.scores = <<>>]]
    /\ UNCHANGED <<db_file, font_matcher, load, call, remembered, char_image, extraction, app, cosine, pipeline>>

\* One iteration of the loop over self.font_database.items(), or its end.
ThreadLoop(t) ==
    /\ threads[t].pc = "loop"
    /\ LET db == font_matcher[1].font_database
           frame == threads[t]
       IN  IF frame.i > Len(db)
           THEN threads' = [threads EXCEPT ![t].pc = "sort"]
           ELSE LET s == _cosine_similarity(frame.target_vector[1], db[frame.i].vector)
                IN  IF s.raised # ""
                    THEN threads' = [threads EXCEPT ![t] = Returned(@, s.raised, <<>>)]
                    ELSE threads' =
                             [AppendScore(threads, t, [font_name  |-> db[frame.i].name,
                                                     similarity |-> s.value])
                                 EXCEPT ![t].i = @ + 1]
    /\ UNCHANGED <<db_file, font_matcher, load, call, remembered, char_image, extraction, app, cosine, pipeline>>

\* scores.sort(key=lambda item: item[1], reverse=True)
ThreadSort(t) ==
    /\ threads[t].pc = "sort"
    /\ threads' = [threads EXCEPT ![t].pc = "slice", ![t].scores = SortScores(@)]
    /\ UNCHANGED <<db_file, font_matcher, load, call, remembered, char_image, extraction, app, cosine, pipeline>>

\* return scores[:top_n]
ThreadReturn(t) ==
    /\ threads[t].pc = "slice"
    /\ threads' =
           [threads EXCEPT ![t] =
               [Returned(@, "return", SliceTo(@.scores, @.top_n))
                   EXCEPT !.overlapped =
                       \E u \in CallingThreads :
                           /\ u # t
                           /\ threads[u].pc = "loop"
                           /\ threads[u].scores # <<>>]]
    /\ UNCHANGED <<db_file, font_matcher, load, call, remembered, char_image, extraction, app, cosine, pipeline>>

InitConcurrent ==
    /\ db_file \in ConcurrentFiles
    /\ font_matcher = <<>>
    /\ load = NotLoaded
    /\ call = NoCall
    /\ remembered = <<>>
    /\ char_image = <<>>
    /\ extraction = NotExtracted
    /\ app = NoApp
    /\ threads = [t \in CallingThreads |-> IdleFrame]
    /\ cosine = NoCosine
    /\ pipeline = NoPipeline

NextConcurrent ==
    \/ FontMatcher
    \/ \E t \in CallingThreads : ThreadCall(t)
    \/ \E t \in CallingThreads : ThreadEnter(t)
    \/ \E t \in CallingThreads : ThreadAggregate(t)
    \/ \E t \in CallingThreads : ThreadCheck(t)
    \/ \E t \in CallingThreads : ThreadLoop(t)
    \/ \E t \in CallingThreads : ThreadSort(t)
    \/ \E t \in CallingThreads : ThreadReturn(t)

SpecConcurrent == InitConcurrent /\ [][NextConcurrent]_vars

-----------------------------------------------------------------------------
(* _cosine_similarity called directly *)

\* The vectors tried: of the extractor's size with first components from -1
\* to MaxComponent, and of the demo's size.
CosineVectors ==
    { Vec(Pattern(FEATURE_VECTOR_SIZE, a, b)) :
        a \in (-1)..MaxComponent, b \in (-1)..MaxComponent }
    \cup { Vec(Pattern(DEMO_VECTOR_SIZE, a, 0)) : a \in 0..1 }

\* FontMatcher._cosine_similarity(vec1, vec2)
CosineSimilarityCall(vec1, vec2) ==
    /\ LET out == _cosine_similarity(vec1, vec2)
       IN  cosine' = [called |-> TRUE, vec1 |-> vec1, vec2 |-> vec2,
                      raised |-> out.raised, value |-> out.value,
                      previous |-> IF cosine.called
                                   THEN <<[cosine EXCEPT !.previous = <<>>]>>
                                   ELSE <<>>]
    /\ UNCHANGED <<db_file, font_matcher, load, call, remembered, char_image, extraction,
                   app, threads, pipeline>>

\* The call repeated with its two arguments exchanged.
CosineSimilaritySwappedCall ==
    /\ cosine.called
    /\ cosine.previous = <<>>
    /\ CosineSimilarityCall(cosine.vec2, cosine.vec1)

NextCosine ==
    \/ /\ ~cosine.called
       /\ \E vec1 \in CosineVectors, vec2 \in CosineVectors : CosineSimilarityCall(vec1, vec2)
    \/ CosineSimilaritySwappedCall

\* The similarity on its own: no file, no matcher, one call and the same call
\* with the arguments exchanged.
InitCosine ==
    /\ db_file = [kind |-> "absent", items |-> <<>>]
    /\ font_matcher = <<>>
    /\ load = NotLoaded
    /\ call = NoCall
    /\ remembered = <<>>
    /\ char_image = <<>>
    /\ extraction = NotExtracted
    /\ app = NoApp
    /\ threads = <<>>
    /\ cosine = NoCosine
    /\ pipeline = NoPipeline

SpecCosine == InitCosine /\ [][NextCosine]_vars

-----------------------------------------------------------------------------
(* process_image and process_capture called on one capture *)

\* image_processor.process_image(image_np)
ProcessImageCall(image_np, readtext) ==
    /\ pipeline.op = "none"
    /\ pipeline' = [op |-> "process_image", image_np |-> image_np, readtext |-> readtext,
                    returned |-> process_image(image_np, readtext), captured |-> <<>>]
    /\ UNCHANGED <<db_file, font_matcher, load, call, remembered, char_image, extraction,
                   app, threads, cosine>>

\* app.process_capture(image_np, geometry)
ProcessCaptureCall(image_np, readtext, empty_truth) ==
    /\ pipeline.op = "none"
    /\ LET returned == process_image(image_np, readtext)
       IN  pipeline' = [op |-> "process_capture", image_np |-> image_np,
                        readtext |-> readtext, returned |-> returned,
                        captured |-> <<process_capture(returned, empty_truth)>>]
    /\ UNCHANGED <<db_file, font_matcher, load, call, remembered, char_image, extraction,
                   app, threads, cosine>>

NextPipeline ==
    \/ \E image_np \in RawCaptures, readtext \in ReadtextOutcomes :
           ProcessImageCall(image_np, readtext)
    \/ \E image_np \in RawCaptures, readtext \in ReadtextOutcomes, empty_truth \in EmptyTruths :
           ProcessCaptureCall(image_np, readtext, empty_truth)

InitPipeline ==
    /\ db_file = [kind |-> "absent", items |-> <<>>]
    /\ font_matcher = <<>>
    /\ load = NotLoaded
    /\ call = NoCall
    /\ remembered = <<>>
    /\ char_image = <<>>
    /\ extraction = NotExtracted
    /\ app = NoApp
    /\ threads = <<>>
    /\ cosine = NoCosine
    /\ pipeline = NoPipeline

SpecPipeline == InitPipeline /\ [][NextPipeline]_vars

-----------------------------------------------------------------------------
(* The worked example of the ranking *)

InitExample ==
    /\ db_file \in ExampleFiles
    /\ font_matcher = <<>>
    /\ load = NotLoaded
    /\ call = NoCall
    /\ remembered = <<>>
    /\ char_image = <<>>
    /\ extraction = NotExtracted
    /\ app = NoApp
    /\ threads = <<>>
    /\ cosine = NoCosine
    /\ pipeline = NoPipeline

NextExample ==
    \/ FontMatcher
    \/ /\ call = NoCall
       /\ \E character_features \in ExampleLists, top_n \in TopNs :
              FindBestMatchesCall(character_features, top_n)

SpecExample == InitExample /\ [][NextExample]_vars

-----------------------------------------------------------------------------
(* Properties of the matcher *)

\* The loaded dict, <<>> before a FontMatcher exists.
font_database == IF font_matcher = <<>> THEN <<>> ELSE font_matcher[1].font_database

\* Position of a font in the dict's iteration order.
DbIndex(name) == CHOOSE k \in 1..Len(font_database) : font_database[k].name = name

Matched == call.op = "find_best_matches"

Aggregated == call.op = "_calculate_target_vector"

\* A request whose target vector has the length of every database vector.
MatchingDimension ==
    /\ Matched
    /\ font_database # <<>>
    /\ call.target_vector # <<>>
    /\ \A k \in 1..Len(font_database) :
           Len(font_database[k].vector) = Len(call.target_vector[1])

\* C1: the pairs find_best_matches returns are in non-increasing order of
\* similarity, and two pairs of equal similarity stand in the order in which
\* the database iterates over their fonts.
C1_RankingOrder ==
    (Matched /\ call.outcome = "return") =>
        \A i, j \in 1..Len(call.result) :
            i < j =>
                /\ ~FracLess(call.result[i].similarity, call.result[j].similarity)
                /\ call.result[i].similarity = call.result[j].similarity
                       => DbIndex(call.result[i].font_name) < DbIndex(call.result[j].font_name)

\* A ranking of two fonts of equal similarity was returned.
C1_Witness ==
    /\ MatchingDimension
    /\ Len(call.result) = 2
    /\ call.result[1].similarity = call.result[2].similarity

DimensionMismatch ==
    /\ Matched
    /\ font_database # <<>>
    /\ call.target_vector # <<>>
    /\ Len(call.target_vector[1]) # Len(font_database[1].vector)

\* C3 as claimed: on a dimension mismatch find_best_matches ends in a way the
\* caller can tell from the empty list it returns when nothing is found.
C3_MismatchIsDistinct ==
    DimensionMismatch => ~(call.outcome = "return" /\ call.result = <<>>)

\* C3: on a dimension mismatch find_best_matches prints an error line and
\* returns the empty list, as it does when nothing is found; it raises
\* nothing and computes no similarity.
C3_MismatchReturnsEmpty ==
    DimensionMismatch =>
        /\ call.outcome = "return"
        /\ call.result = <<>>
        /\ call.message = "Error: Target vector dimension"
        /\ call.similarity_calls = 0

\* A request of mismatched dimension was answered.
C3_Witness == DimensionMismatch /\ Len(call.target_vector[1]) = DEMO_VECTOR_SIZE

\* kept is the list of the vectors of length n in vectors, in their order.
KeepsExactly(kept, vectors, n) ==
    /\ Len(kept) = Cardinality({i \in 1..Len(vectors) : Len(vectors[i]) = n})
    /\ \E f \in [1..Len(kept) -> 1..Len(vectors)] :
           /\ \A a, b \in 1..Len(kept) : a < b => f[a] < f[b]
           /\ \A k \in 1..Len(kept) : kept[k] = vectors[f[k]] /\ Len(vectors[f[k]]) = n

\* C4 as claimed: the aggregation keeps exactly the vectors of length 7.
C4_KeepsCanonicalLength ==
    Aggregated => KeepsExactly(call.retained, call.character_features, FEATURE_VECTOR_SIZE)

\* C4: the aggregation keeps exactly the vectors that have the length of the
\* first vector of the list, whatever that length is.
C4_KeepsLengthOfFirst ==
    (Aggregated /\ call.character_features # <<>>) =>
        KeepsExactly(call.retained, call.character_features,
                     Len(call.character_features[1]))

\* A list whose first vector is not of length 7 and that holds one of length
\* 7 was aggregated.
C4_Witness ==
    /\ Aggregated
    /\ call.character_features # <<>>
    /\ Len(call.character_features[1]) # FEATURE_VECTOR_SIZE
    /\ \E i \in 1..Len(call.character_features) :
           Len(call.character_features[i]) = FEATURE_VECTOR_SIZE

\* C5: the aggregation returns None exactly when no vector is retained, and
\* otherwise the vector whose every component times the number of retained
\* vectors is the sum of that component over the retained vectors.
C5_MeanOfRetained ==
    Aggregated =>
        /\ (call.target_vector = <<>>) <=> (call.retained = <<>>)
        /\ call.target_vector # <<>> =>
               /\ Len(call.target_vector[1]) = Len(call.retained[1])
               /\ \A i \in 1..Len(call.target_vector[1]) :
                      FracMul(call.target_vector[1][i], Float(Len(call.retained)))
                          = SumAt(call.retained, i)

\* A list of vectors of two lengths was aggregated: one was dropped and the
\* mean of the other returned.
C5_Witness ==
    /\ Aggregated
    /\ call.retained # <<>>
    /\ Len(call.retained) < Len(call.character_features)
    /\ call.target_vector # <<>>

\* C7: with an empty feature list or an empty database find_best_matches
\* returns the empty list, raises nothing and computes no similarity.
C7_DegradedIsEmpty ==
    (Matched /\ (call.character_features = <<>> \/ font_database = <<>>)) =>
        /\ call.outcome = "return"
        /\ call.result = <<>>
        /\ call.similarity_calls = 0

\* An empty feature list met a database with fonts in it.
C7_Witness ==
    /\ Matched
    /\ call.character_features = <<>>
    /\ font_database # <<>>

\* The whole ranking of the request: every font scored and sorted.
FullRanking ==
    SortScores(ScoreLoop(call.target_vector[1], font_database,
                         [raised |-> "", calls |-> 0, scores |-> <<>>]).scores)

\* C8: for top_n >= 0 and a request of matching dimension the result is the
\* first min(top_n, number of fonts) pairs of the whole ranking.
C8_TopNTruncation ==
    (MatchingDimension /\ call.top_n >= 0) =>
        /\ call.outcome = "return"
        /\ Len(call.result) = Min(call.top_n, Len(font_database))
        /\ Len(call.result) <= call.top_n
        /\ \A i \in 1..Len(call.result) : call.result[i] = FullRanking[i]

\* A ranking was cut short of the database's size.
C8_Witness ==
    /\ MatchingDimension
    /\ call.top_n >= 1
    /\ call.top_n < Len(font_database)
    /\ Len(call.result) = call.top_n

\* C12: once a FontMatcher exists, no step changes its font_database: the
\* items, their vectors and their order stay as they are, whatever the
\* arguments and the outcome of a find_best_matches call.
C12_DatabaseNeverMutated ==
    [][font_matcher # <<>> => font_matcher' = font_matcher]_vars

\* A request was answered after a request with other arguments, on a
\* database of two fonts, and it returned a font.
C12_Witness ==
    /\ remembered # <<>>
    /\ remembered[1].others
    /\ Matched
    /\ Len(font_database) = 2
    /\ call.outcome = "return"
    /\ Len(call.result) >= 1

Constructed == load.outcome # "pending"

\* The file holds a mapping from names to vectors of length 7.
WellFormedFile ==
    /\ db_file.kind = "mapping"
    /\ \A i \in 1..Len(db_file.items) :
           Len(db_file.items[i].features) = FEATURE_VECTOR_SIZE

C10_MissingDatabase ==
    (Constructed /\ db_file.kind = "absent") =>
        /\ load.outcome = "FileNotFoundError"
        /\ ~load.opened
        /\ font_matcher = <<>>

\* A construction on a missing file has ended.
C10_Witness == Constructed /\ db_file.kind = "absent" /\ load.outcome = "FileNotFoundError"

-----------------------------------------------------------------------------
(* Properties of the extractor *)

Extracted == extraction.outcome # "pending"

\* No pixel of the array as given is non-zero.
NoForeground(image) == CountNonzeroRaw(image) = 0

\* C6: for a glyph that is None, has zero area or has no non-zero pixel,
\* extract_features returns seven zeros and raises nothing.
C6_ZeroSentinel ==
    (/\ Extracted
     /\ \/ char_image = <<>>
        \/ char_image[1].h * char_image[1].w = 0
        \/ NoForeground(char_image[1]))
        => /\ extraction.outcome = "return"
           /\ Len(extraction.feature_vector) = FEATURE_VECTOR_SIZE
           /\ \A i \in 1..FEATURE_VECTOR_SIZE :
                  extraction.feature_vector[i] = [num |-> 0, den |-> 1]

\* A glyph of positive area without a foreground pixel was extracted.
C6_Witness ==
    /\ Extracted
    /\ char_image # <<>>
    /\ char_image[1].h * char_image[1].w > 1
    /\ NoForeground(char_image[1])

\* The features of the glyph as the code reads it: the pixels after the cast
\* to uint8.
HasForeground(image) == \E k \in 0..(image.h * image.w - 1) : PixelAt(image, k) # 0

NonBlank ==
    /\ Extracted
    /\ char_image # <<>>
    /\ char_image[1].h * char_image[1].w > 0
    /\ HasForeground(char_image[1])

\* The contours of the latest call that have a parent.
WithParent ==
    {k \in 1..Len(extraction.contours) : extraction.contours[k].parent # -1}

\* C17: for every 2-D bitmap extract_features returns a vector of exactly 7
\* components; for a blank one all are 0, and otherwise the first is the
\* aspect ratio, the second the share of non-zero pixels, the third and
\* fourth the centroid divided by width and height, the fifth the number of
\* holes, the sixth the perimeters divided by h + w and the seventh the areas
\* divided by h * w.
C17_FixedSchema ==
    (Extracted /\ char_image # <<>>) =>
        LET image == char_image[1]
            v == extraction.feature_vector
        IN  /\ extraction.outcome = "return"
            /\ Len(v) = FEATURE_VECTOR_SIZE
            /\ ~NonBlank => \A i \in 1..FEATURE_VECTOR_SIZE : v[i].num = 0
            /\ NonBlank =>
                   /\ FracMul(v[1], Float(image.h)) = Float(image.w)
                   /\ FracMul(v[2], Float(image.h * image.w)) = Float(CountNonzero(image))
                   /\ FracMul(v[3], Float(image.w * Moment(image, 0, 0)))
                          = Float(Moment(image, 1, 0))
                   /\ FracMul(v[4], Float(image.h * Moment(image, 0, 0)))
                          = Float(Moment(image, 0, 1))
                   /\ v[5] = Float(Cardinality(WithParent))
                   /\ FracMul(v[6], Float(image.h + image.w))
                          = Float(TotalPerimeter(extraction.contours))
                   /\ FracMul(v[7], Float(image.h * image.w))
                          = Float(TotalArea(extraction.contours))

\* A glyph that is higher than wide, with one hole and a contour of positive
\* length, was extracted.
C17_Witness ==
    /\ NonBlank
    /\ char_image[1].h > char_image[1].w
    /\ extraction.feature_vector[5] = Float(1)
    /\ extraction.feature_vector[6].num > 0
    /\ extraction.feature_vector[2] # extraction.feature_vector[1]

\* Every pixel of the first and last row and column is foreground.
Framed(image) ==
    /\ image.h >= 3
    /\ image.w >= 3
    /\ \A r \in 1..image.h, c \in 1..image.w :
           (r \in {1, image.h} \/ c \in {1, image.w}) => AsUint8(image.rows[r][c]) # 0

\* The background pixels of the image, as <<row, column>>.
Carved(image) ==
    {cell \in (1..image.h) \X (1..image.w) : AsUint8(image.rows[cell[1]][cell[2]]) = 0}

\* The cavities of a framed image with at most two background pixels: none,
\* one for a single pixel or two pixels side by side, two otherwise.
Cavities(image) ==
    IF Carved(image) = {} THEN 0
    ELSE IF \A a, b \in Carved(image) : Abs(a[1] - b[1]) + Abs(a[2] - b[2]) <= 1 THEN 1
    ELSE 2

\* C18: hole_count is the number of contours of the hierarchy that have a
\* parent, a non-negative whole number; a filled shape gives 0, a shape with
\* one cavity 1 and a shape with two cavities 2, and the test fixtures 'O',
\* 'I' and 'B' give 1, 0 and 2.
C18_HoleCount ==
    Extracted =>
        LET holes == extraction.feature_vector[5]
        IN  /\ holes.den = 1
            /\ holes.num >= 0
            /\ holes.num = Cardinality(WithParent)
            /\ (NonBlank /\ Framed(char_image[1]) /\ Cardinality(Carved(char_image[1])) <= 2)
                   => holes.num = Cavities(char_image[1])
            /\ char_image = image_o => holes.num = 1
            /\ char_image = image_i => holes.num = 0
            /\ char_image = image_b => holes.num = 2

\* A filled rectangle with two cavities that touch at a corner was extracted.
C18_Witness ==
    /\ NonBlank
    /\ Framed(char_image[1])
    /\ Cardinality(Carved(char_image[1])) = 2
    /\ Cavities(char_image[1]) = 2
    /\ extraction.feature_vector[5] = Float(2)

\* The foreground is its own mirror image left to right and top to bottom.
Symmetric(image) ==
    \A r \in 1..image.h, c \in 1..image.w :
        /\ (AsUint8(image.rows[r][c]) # 0) <=> (AsUint8(image.rows[r][image.w + 1 - c]) # 0)
        /\ (AsUint8(image.rows[r][c]) # 0) <=> (AsUint8(image.rows[image.h + 1 - r][c]) # 0)

\* x lies within 1/20 of 1/2.
NearHalf(x) == 20 * Abs(2 * x.num - x.den) <= 2 * x.den

\* C19: for every bitmap whose foreground is symmetric about the centre in
\* both axes, whatever its width and height, the two centroid features lie
\* within 0.05 of 0.5.
C19_CenteredSymmetric ==
    (NonBlank /\ Symmetric(char_image[1])) =>
        /\ NearHalf(extraction.feature_vector[3])
        /\ NearHalf(extraction.feature_vector[4])

\* C20: for every bitmap with a foreground pixel the first feature is the
\* number of columns divided by the number of rows; the fixture of 20 rows by
\* 10 columns gives 1/2 and the one of 10 rows by 20 columns gives 2.
C20_AspectRatio ==
    NonBlank =>
        /\ FracMul(extraction.feature_vector[1], Float(char_image[1].h))
               = Float(char_image[1].w)
        /\ char_image = image_i => extraction.feature_vector[1] = [num |-> 1, den |-> 2]
        /\ char_image = image_lying_bar =>
               extraction.feature_vector[1] = [num |-> 2, den |-> 1]

\* The fixture of 20 rows by 10 columns was extracted.
C20_Witness ==
    /\ NonBlank
    /\ char_image = image_i
    /\ extraction.feature_vector[1] = [num |-> 1, den |-> 2]

\* The returned vector is the sentinel: every component is 0.
IsSentinel == \A i \in 1..Len(extraction.feature_vector) : extraction.feature_vector[i].num = 0

\* C29: extract_features returns the all-zero vector exactly for None, for an
\* array without pixels and for a bitmap without a foreground pixel (a pixel
\* that is non-zero in the 8-bit image); for a bitmap with a foreground pixel
\* the aspect ratio and the pixel density are positive; and the centroid
\* fallback of a zero m00 is never taken.
C29_SentinelUnambiguous ==
    Extracted =>
        /\ IsSentinel <=> ~NonBlank
        /\ NonBlank => /\ extraction.feature_vector[1].num > 0
                       /\ extraction.feature_vector[2].num > 0
        /\ ~extraction.zero_mass_fallback

\* A bitmap of 32-bit pixels was extracted of which one wraps to 0 in 8 bits
\* and another does not.
C29_Witness ==
    /\ NonBlank
    /\ char_image[1].dtype = "int32"
    /\ CountNonzero(char_image[1]) < CountNonzeroRaw(char_image[1])
    /\ ~IsSentinel

\* C21: the vector extract_features returns has element type float64, for
\* the all-zero sentinel and for every other result.
C21_Float64 ==
    Extracted => extraction.dtype = "float64"

-----------------------------------------------------------------------------
(* Properties of the application *)

\* The start-up ran and ImageProcessor() or FontMatcher(...) raised.
LoadFailed ==
    /\ app.constructed
    /\ ~app.image_processor \/ load.outcome # "ok"

\* C11: when loading the image processor or the font database fails during
\* the start-up, an error dialog is shown, app.quit() is called, the trigger
\* signal has no slot, the hotkey listener is not started, and no trigger is
\* ever queued and no capture widget ever shown.
C11_StartupAborts ==
    LoadFailed =>
        /\ app.error_dialog # ""
        /\ app.quit_requested
        /\ ~app.signal_connected
        /\ app.hotkey_listener = "none"
        /\ app.queued_triggers = <<>>
        /\ app.capture_widget = "none"

\* The start-up ended on a database file that does not unpickle.
C11_Witness ==
    /\ LoadFailed
    /\ app.image_processor
    /\ load.outcome = "Exception"
    /\ app.error_dialog = "Initialization Error"

\* C13: whatever the interleaving of the threads, a call that has ended
\* ended as find_best_matches ends on the same arguments when it runs alone,
\* with the same result, and the database is the one that was loaded.
C13_ConcurrentMatching ==
    \A t \in DOMAIN threads :
        threads[t].pc = "done" =>
            LET alone == find_best_matches(font_database, threads[t].character_features,
                                           threads[t].top_n)
            IN  /\ threads[t].outcome = alone.outcome
                /\ threads[t].result = alone.result
                /\ font_database = ToFontDatabase(db_file.items)

\* Every thread has returned a font, and one of the calls returned while
\* another thread was in the middle of its scoring loop.
C13_Witness ==
    /\ threads # <<>>
    /\ \A t \in DOMAIN threads :
           /\ threads[t].pc = "done"
           /\ Len(threads[t].result) >= 1
    /\ \E t \in DOMAIN threads : threads[t].overlapped

-----------------------------------------------------------------------------
(* Properties of the similarity *)

\* Every component of the vector is 0, that is, its norm is 0.
ZeroNorm(vec) == \A i \in 1..Len(vec) : vec[i].num = 0

Swapped ==
    /\ cosine.called
    /\ cosine.previous # <<>>
    /\ cosine.vec1 = cosine.previous[1].vec2
    /\ cosine.vec2 = cosine.previous[1].vec1

\* C15: for two vectors of one length, zero vectors included, the call with
\* the arguments exchanged returns the float the first call returned.
C15_Symmetric ==
    (Swapped /\ Len(cosine.vec1) = Len(cosine.vec2)) =>
        /\ cosine.raised = ""
        /\ cosine.previous[1].raised = ""
        /\ cosine.value = cosine.previous[1].value

\* Two vectors of different norms and of a similarity that is neither 0 nor
\* 1 were compared in both orders.
C15_Witness ==
    /\ Swapped
    /\ Len(cosine.vec1) = Len(cosine.vec2)
    /\ NormSq(cosine.vec1) # NormSq(cosine.vec2)
    /\ cosine.value.num # 0
    /\ cosine.value # OneSimilarity

-----------------------------------------------------------------------------
(* Properties of the image processor *)

\* process_image or process_capture ran process_image, and it returned.
ProcessImageReturned == pipeline.op # "none" /\ pipeline.returned.raised = ""

\* The detections the OCR engine made for the image, in its order: those
\* readtext returned, none if it was not called or raised.
OcrDetections ==
    IF pipeline.returned.ocr_called /\ pipeline.readtext.raised = ""
    THEN pipeline.readtext.results
    ELSE <<>>

\* The positions of the detections at or above the threshold, and the place
\* of such a position among them.
AtOrAbove ==
    {k \in 1..Len(OcrDetections) : OcrDetections[k][3] >= OCR_CONFIDENCE_THRESHOLD}

Place(k) == Cardinality({j \in AtOrAbove : j <= k})

\* C22: the detections process_image returns are exactly the OCR detections
\* of confidence >= 0.60, in the engine's order: as many as there are, and the
\* i-th returned is the i-th of them with its bbox, text and confidence.
C22_ConfidenceGate ==
    ProcessImageReturned =>
        LET forwarded == pipeline.returned.value[2].items
        IN  /\ Len(forwarded) = Cardinality(AtOrAbove)
            /\ \A k \in AtOrAbove :
                   /\ forwarded[Place(k)].bbox = OcrDetections[k][1]
                   /\ forwarded[Place(k)].text = OcrDetections[k][2]
                   /\ forwarded[Place(k)].confidence = OcrDetections[k][3]

\* A detection under the threshold stood before one exactly at it, and only
\* the second was returned.
C22_Witness ==
    /\ ProcessImageReturned
    /\ Len(OcrDetections) = MaxDetections
    /\ OcrDetections[1][3] = OCR_CONFIDENCE_THRESHOLD - 1
    /\ OcrDetections[MaxDetections][3] = OCR_CONFIDENCE_THRESHOLD
    /\ Len(pipeline.returned.value[2].items) >= 1
    /\ pipeline.returned.value[2].items[1].bbox # 1

\* The raw image is None or has no element.
ZeroAreaCapture ==
    \/ pipeline.image_np = <<>>
    \/ Size(pipeline.image_np[1]) = 0

\* C23: for a raw image that is None or of size 0, process_image returns an
\* empty array and an empty list, calls neither _preprocess nor _run_ocr and
\* raises nothing.
C23_ZeroAreaCapture ==
    (pipeline.op = "process_image" /\ ZeroAreaCapture) =>
        /\ pipeline.returned.raised = ""
        /\ pipeline.returned.value[1].type = "ndarray"
        /\ Size(pipeline.returned.value[1]) = 0
        /\ pipeline.returned.value[2].type = "list"
        /\ pipeline.returned.value[2].items = <<>>
        /\ ~pipeline.returned.preprocess_called
        /\ ~pipeline.returned.ocr_called

\* process_image was given an array of two columns and no rows while the
\* reader had detections to report.
C23_Witness ==
    /\ pipeline.op = "process_image"
    /\ pipeline.image_np # <<>>
    /\ pipeline.image_np[1].shape = <<0, 2, 3>>
    /\ pipeline.readtext.results # <<>>

\* process_capture ran and process_image returned a tuple to it.
CaptureBound == pipeline.op = "process_capture" /\ pipeline.returned.raised = ""

\* C27: process_image returns the preprocessed image first and the list of
\* detections second, and process_capture binds the list to recognized_data,
\* on which it makes its "no text found" test, and the image to
\* preprocessed_image.
C27_BindsInOrder ==
    CaptureBound =>
        /\ pipeline.returned.value[1].type = "ndarray"
        /\ pipeline.returned.value[2].type = "list"
        /\ pipeline.captured[1].recognized_data = <<pipeline.returned.value[2]>>
        /\ pipeline.captured[1].preprocessed_image = <<pipeline.returned.value[1]>>
        /\ pipeline.captured[1].notification = "No text found"
               <=> pipeline.returned.value[2].items = <<>>

\* C25: a capture for which detections were forwarded has extract_features
\* applied to the crop of each of them and then find_best_matches called on
\* the resulting vectors, not on the detections and not on the image.
C25_PipelineOrder ==
    (CaptureBound /\ pipeline.returned.value[2].items # <<>>) =>
        LET captured == pipeline.captured[1]
        IN  /\ captured.extract_features_calls = Len(pipeline.returned.value[2].items)
            /\ captured.matcher_arguments # <<>>
            /\ captured.matcher_arguments[1][1] # pipeline.returned.value[1]
            /\ captured.matcher_arguments[1][1] # pipeline.returned.value[2]

-----------------------------------------------------------------------------
(* Properties of the capture overlay *)

\* C24 as stated: at most one capture widget is visible at a time, and a
\* hotkey activation raised while a capture widget is visible never makes
\* start_capture create a widget.
C24_RetriggerCreatesNothing ==
    /\ ~app.created_while_visible
    /\ ~app.created_by_stale_trigger

\* C24 amended: start_capture never creates a capture widget while the one
\* it holds is visible, so that at most one is visible at a time; a visible
\* overlay is the one self.capture_widget refers to and no handler has
\* closed it.
C24_OneVisibleWidget ==
    /\ ~app.created_while_visible
    /\ app.capture_widget = "visible" =>
           /\ app.widget # <<>>
           /\ app.widget[1].closed_by = <<>>
           /\ app.widgets_created >= 1

\* A trigger was delivered while the overlay was visible and did nothing,
\* and later triggers created overlays up to the last one the run may have.
C24_Witness ==
    /\ app.trigger_ignored
    /\ app.widgets_created = MaxWidgets
    /\ app.capture_widget = "visible"

\* The rectangle the overlay's selection makes.
SelectionRect(widget) == Normalized(widget._start_pos[1], widget._end_pos[1])

LargeEnough(rect) == Width(rect) > 5 /\ Height(rect) > 5

-----------------------------------------------------------------------------
(* Properties of the matcher on any loaded database *)

\* C30: once a database is loaded, find_best_matches raises for no list of
\* feature vectors: every call returns a list, and every database vector a
\* similarity was computed with has the dimension of the target.
C30_NeverRaises ==
    Matched =>
        /\ call.outcome = "return"
        /\ call.similarity_calls > 0 =>
               \A k \in 1..call.similarity_calls :
                   Len(font_database[k].vector) = Len(call.target_vector[1])

-----------------------------------------------------------------------------
(* Properties of the worked example *)

\* The target of the example was matched, alone, against the example
\* database with top_n = 1.
ExampleMatched ==
    /\ Matched
    /\ call.character_features = <<ExampleTarget>>
    /\ call.top_n = 1

\* x > 0.99 for a similarity x >= 0 stored as x^2: x^2 > 0.9801, that is
\* 10000 * (den - num) < 199 * den.
Above99(similarity) ==
    /\ similarity.num > 0
    /\ 10000 * (similarity.den - similarity.num) < 199 * similarity.den

\* C26: with the database {FontA: [0.8, 0.5, 0.2, 0.9, 0, 0.3, 0.4], FontB:
\* [0.1, 0.1, 0.9, 0.1, 2, 0.9, 0.1]} and the target [0.81, 0.52, 0.19, 0.88,
\* 0, 0.31, 0.39], a request for the top 1 returns exactly one pair, FontA with
\* a similarity above 0.99.
C26_RankingExample ==
    ExampleMatched =>
        /\ call.outcome = "return"
        /\ Len(call.result) = 1
        /\ call.result[1].font_name = "FontA"
        /\ Above99(call.result[1].similarity)

\* The example was run on the database that lists FontB first.
C26_Witness ==
    /\ ExampleMatched
    /\ font_database[1].name = "FontB"
    /\ call.similarity_calls = 2

====
